---------------------------- MODULE Spec2Model ----------------------------
(***************************************************************************)
(* A model of the racer engine: the Track builder (Track.ts), the vehicle  *)
(* integrator and frame loop (Game.ts) and the road pass of the renderer   *)
(* (WebGLRenderer.ts / Renderer.ts).                                       *)
(*                                                                         *)
(* NUMBERS.  Every value the program holds is a JavaScript number, a       *)
(* binary floating-point value on which each arithmetic operation rounds   *)
(* to nearest, ties to even.  The model keeps that semantics with a        *)
(* significand of MantBits bits (the program's numbers have 53) and an     *)
(* unbounded exponent: a number is a pair <<m, e>> standing for m * 2^e,   *)
(* kept canonical (m odd, or <<0, 0>> for zero), so that two numbers are   *)
(* equal exactly when their pairs are.  Counts and indices that the        *)
(* program only ever uses as small integers are TLA+ integers.             *)
(***************************************************************************)
EXTENDS Integers, Sequences, FiniteSets, TLC

\* Significand width of the modelled numbers.
MantBits == 13

-----------------------------------------------------------------------------
(* Floating-point arithmetic *)

Abs(n) == IF n < 0 THEN -n ELSE n

Sgn(n) == IF n < 0 THEN -1 ELSE IF n > 0 THEN 1 ELSE 0

Min(a, b) == IF a < b THEN a ELSE b

Max(a, b) == IF a > b THEN a ELSE b

\* The number of bits of n >= 0.
RECURSIVE BitLen(_)
BitLen(n) ==
  IF n >= 65536 THEN 16 + BitLen(n \div 65536)
  ELSE IF n >= 256 THEN 8 + BitLen(n \div 256)
  ELSE IF n >= 16 THEN 4 + BitLen(n \div 16)
  ELSE IF n >= 4 THEN 2 + BitLen(n \div 4)
  ELSE IF n >= 2 THEN 2
  ELSE n

RECURSIVE Canon(_, _)
Canon(m, e) ==
  IF m = 0 THEN <<0, 0>>
  ELSE IF m % 2 = 1 THEN <<m, e>>
  ELSE IF m % 256 = 0 THEN Canon(m \div 256, e + 8)
  ELSE IF m % 16 = 0 THEN Canon(m \div 16, e + 4)
  ELSE Canon(m \div 2, e + 1)

\* mag * 2^e, mag >= 0, with its s lowest bits rounded away, ties to even:
\* the quotient goes up by one when the remainder is more than half of
\* 2^s, or is half of it and the quotient is odd.
RoundBits(mag, e, s) ==
  Canon(IF 2 * (mag % (2 ^ s)) > 2 ^ s
             \/ (2 * (mag % (2 ^ s)) = 2 ^ s /\ (mag \div (2 ^ s)) % 2 = 1)
          THEN mag \div (2 ^ s) + 1
          ELSE mag \div (2 ^ s),
        e + s)

FNeg(a) == <<-a[1], a[2]>>

\* m * 2^e rounded to MantBits significant bits.
Rnd(m, e) ==
  IF BitLen(Abs(m)) <= MantBits THEN Canon(m, e)
  ELSE IF m < 0 THEN FNeg(RoundBits(-m, e, BitLen(-m) - MantBits))
  ELSE RoundBits(m, e, BitLen(m) - MantBits)

\* An integer as a number (rounded when it needs more than MantBits bits).
Num(n) == Rnd(n, 0)

Zero == <<0, 0>>

One == <<1, 0>>

FMul(a, b) == Rnd(a[1] * b[1], a[2] + b[2])

\* h * 2^(MantBits + 3) plus what is left of l once its s lowest bits are
\* dropped, those bits kept as one sticky bit.
FarSum(h, l, s) ==
  2 * h * (2 ^ (MantBits + 2))
    + Sgn(l) * (2 * (IF s > 30 THEN 0 ELSE Abs(l) \div (2 ^ s))
                + (IF s > 30 THEN 1
                   ELSE IF Abs(l) % (2 ^ s) # 0 THEN 1 ELSE 0))

\* hi + lo where the exponent of hi is the one of lo plus d, d >= 0.
AddShifted(hi, lo, d) ==
  Rnd(IF d <= MantBits + 2 THEN hi[1] * (2 ^ d) + lo[1]
      ELSE FarSum(hi[1], lo[1], d - MantBits - 2),
      IF d <= MantBits + 2 THEN lo[2] ELSE hi[2] - MantBits - 3)

\* hi has the larger exponent.
AddAligned(hi, lo) == AddShifted(hi, lo, hi[2] - lo[2])

FAdd(a, b) ==
  IF a[1] = 0 THEN b
  ELSE IF b[1] = 0 THEN a
  ELSE AddAligned(IF a[2] >= b[2] THEN a ELSE b, IF a[2] >= b[2] THEN b ELSE a)

FSub(a, b) == FAdd(a, FNeg(b))

\* n / d for integers n >= 0 and d > 0, times sign * 2^e: the quotient's
\* bits and a sticky bit for the remainder.
DivQ(n, d, sign, e) ==
  Rnd(sign * (2 * (n \div d) + (IF n % d # 0 THEN 1 ELSE 0)), e - 1)

\* a / b with k more bits given to the dividend.
DivShifted(a, b, k) ==
  DivQ(Abs(a[1]) * (2 ^ k), Abs(b[1]), Sgn(a[1]) * Sgn(b[1]), a[2] - b[2] - k)

\* a / b for b # 0, computed to MantBits + 2 quotient bits.
FDiv(a, b) ==
  IF a[1] = 0 THEN Zero
  ELSE DivShifted(a, b, MantBits + 2 + BitLen(Abs(b[1])) - BitLen(Abs(a[1])))

FSign(a) == Sgn(a[1])

FLt(a, b) == FSign(FSub(a, b)) < 0

FLe(a, b) == FSign(FSub(a, b)) <= 0

FAbs(a) == <<Abs(a[1]), a[2]>>

FMin(a, b) == IF FLt(b, a) THEN b ELSE a

FMax(a, b) == IF FLt(a, b) THEN b ELSE a

\* Math.floor, as an integer.
Floor(a) ==
  IF a[2] >= 0 THEN a[1] * (2 ^ a[2])
  ELSE IF -a[2] > 30 THEN (IF a[1] < 0 THEN -1 ELSE 0)
  ELSE a[1] \div (2 ^ (-a[2]))

\* Math.round (halves go up), as an integer.
Round(a) ==
  IF a[2] >= 0 THEN a[1] * (2 ^ a[2])
  ELSE IF -a[2] > 30 THEN 0
  ELSE (a[1] + 2 ^ (-a[2] - 1)) \div (2 ^ (-a[2]))

\* The % operator with a positive integer divisor: exact, sign of the dividend.
FMod(a, n) ==
  IF FLt(FAbs(a), Num(n)) THEN a
  ELSE IF a[2] >= 0
    THEN Num(Sgn(a[1]) * ((Abs(a[1]) * (2 ^ a[2])) % n))
  ELSE Canon(Sgn(a[1]) * (Abs(a[1]) % (n * (2 ^ (-a[2])))), a[2])

\* The decimal literal n/d, rounded as the language rounds a literal.
Dec(n, d) == FDiv(Num(n), Num(d))

-----------------------------------------------------------------------------
(* Track (Track.ts) *)

\* ROAD.SEGMENT_LENGTH and ROAD.RUMBLE_LENGTH
segmentLength == 200

rumbleLength == 3

createScreenCoord(index) ==
  [world  |-> [x |-> Zero, y |-> Zero, z |-> Num(index * segmentLength)],
   camera |-> [x |-> Zero, y |-> Zero, z |-> Zero],
   screen |-> [x |-> 0, y |-> 0, w |-> 0],
   scale  |-> Zero]

\* Variant: the colour alternates from one segment to the next.
segmentColor_alternating(n) ==
  IF n % 2 = 0 THEN "LIGHT" ELSE "DARK"

segmentColor(n) ==
  IF (n \div rumbleLength) % 2 = 0 THEN "LIGHT" ELSE "DARK"

\* The Segment that addSegment pushes when the store holds n segments.
newSegment(n, curve, hill) ==
  [index   |-> n,
   p1      |-> createScreenCoord(n),
   p2      |-> createScreenCoord(n + 1),
   curve   |-> curve,
   hill    |-> hill,
   color   |-> segmentColor(n),
   sprites |-> <<>>]

addSegment(segments, curve, hill) ==
  Append(segments, newSegment(Len(segments), curve, hill))

\* Variant: a straight one segment short.
addStraight_short(segments, count) ==
  segments \o [j \in 1..(count - 1) |-> newSegment(Len(segments) + j - 1, Zero, Zero)]

\* "for (let i = 0; i < count; i++) this.addSegment(0, 0)": the i-th pass
\* pushes the segment of index Len(segments) + i.
addStraight(segments, count) ==
  segments \o [j \in 1..count |-> newSegment(Len(segments) + j - 1, Zero, Zero)]

\* Math.floor(count / 4), Math.floor(count / 2) and the rest.
enterCountOf(count) == count \div 4

holdCountOf(count) == count \div 2

exitCountOf(count) == count - enterCountOf(count) - holdCountOf(count)

\* Variant: an enter ramp that starts one step up.
enterValue_late(value, i, enterCount) ==
  FDiv(FMul(value, Num(i + 1)), Num(enterCount))

\* (value * i) / enterCount
enterValue(value, i, enterCount) == FDiv(FMul(value, Num(i)), Num(enterCount))

\* Variant: a hold phase at half the value.
holdValue_eased(value) == FMul(value, Dec(1, 2))

\* The value pushed in the hold phase.
holdValue(value) == value

\* value * (1 - i / exitCount)
exitValue(value, i, exitCount) ==
  FMul(value, FSub(One, FDiv(Num(i), Num(exitCount))))

\* The contribution of pass i of a phase that runs count passes.
phaseValue(phase, value, i, count) ==
  CASE phase = "enter" -> enterValue(value, i, count)
    [] phase = "hold"  -> holdValue(value)
    [] phase = "exit"  -> exitValue(value, i, count)

\* The segment of index n that takes the contribution v as its hill (isHill)
\* or as its curve.
envelopeSegment(n, v, isHill) ==
  newSegment(n, IF isHill THEN Zero ELSE v, IF isHill THEN v ELSE Zero)

\* One phase of an enter / hold / exit envelope: the loop
\* "for (let i = 0; i < count; i++) this.addSegment(...)".
phaseLoop(segments, phase, count, value, isHill) ==
  segments \o
    [j \in 1..count |->
       envelopeSegment(Len(segments) + j - 1,
                       phaseValue(phase, value, j - 1, count), isHill)]

\* The three loops of addCurve (isHill = FALSE) and of addHill (isHill = TRUE).
addEnvelope(segments, count, value, isHill) ==
  phaseLoop(
    phaseLoop(
      phaseLoop(segments, "enter", enterCountOf(count), value, isHill),
      "hold", holdCountOf(count), value, isHill),
    "exit", exitCountOf(count), value, isHill)

addCurve(segments, count, curve) == addEnvelope(segments, count, curve, FALSE)

addHill(segments, count, height) == addEnvelope(segments, count, height, TRUE)

\* The running sum of calculateYPositions over segments lo+1 .. hi, started
\* at y: the pair of the updated segments and the final y.  The range is
\* halved so that long tracks do not nest deeply.
RECURSIVE yPass(_, _, _, _)
yPass(segments, lo, hi, y) ==
  IF hi <= lo THEN [segs |-> <<>>, y |-> y]
  ELSE IF hi = lo + 1
    THEN LET segment == segments[hi]
             y2      == FAdd(y, segment.hill)
         IN [segs |-> <<[segment EXCEPT !.p1.world.y = y,
                                        !.p2.world.y = y2]>>,
             y    |-> y2]
  ELSE LET mid   == (lo + hi) \div 2
           left  == yPass(segments, lo, mid, y)
           right == yPass(segments, mid, hi, left.y)
       IN [segs |-> left.segs \o right.segs, y |-> right.y]

\* Variant: the elevations left as addSegment made them.
calculateYPositions_flat(segments) == segments

calculateYPositions(segments) == yPass(segments, 0, Len(segments), Zero).segs

\* Variant: the length counted in rumble strips.
trackLengthOf_rumble(segments) == Len(segments) * rumbleLength

trackLengthOf(segments) == Len(segments) * segmentLength

\* The switch of buildFromData for one piece.
addPiece(segments, piece) ==
  CASE piece.type = "straight" -> addStraight(segments, piece.length)
    [] piece.type = "curve"    -> addCurve(segments, piece.length, piece.value)
    [] piece.type = "hill"     -> addHill(segments, piece.length, piece.value)
    [] OTHER                   -> segments

\* "for (const piece of data.pieces)" over the pieces lo+1 .. hi, the first
\* half of the passes completed before the second half starts.
RECURSIVE piecesLoop(_, _, _, _)
piecesLoop(segments, pieces, lo, hi) ==
  IF hi <= lo THEN segments
  ELSE IF hi = lo + 1 THEN addPiece(segments, pieces[hi])
  ELSE LET mid   == (lo + hi) \div 2
           first == piecesLoop(segments, pieces, lo, mid)
       IN IF Len(first) < Len(segments) THEN first
          ELSE piecesLoop(first, pieces, mid, hi)

\* Variant: a sprite beyond the last segment put on the last segment.
placeSprite_clamped(segments, sprite) ==
  IF sprite.segmentIndex >= 0
    THEN [segments EXCEPT ![Min(sprite.segmentIndex + 1, Len(segments))].sprites =
            Append(@, [type |-> sprite.type, offset |-> sprite.offset])]
    ELSE segments

\* "Add placed sprites from data", one sprite: an index outside the store is
\* skipped.
placeSprite(segments, sprite) ==
  IF sprite.segmentIndex >= 0 /\ sprite.segmentIndex < Len(segments)
    THEN [segments EXCEPT ![sprite.segmentIndex + 1].sprites =
            Append(@, [type |-> sprite.type, offset |-> sprite.offset])]
    ELSE segments

\* The loop over data.sprites, for sprites lo+1 .. hi in list order (the range
\* is halved so that long lists do not nest deeply).
RECURSIVE placeSprites(_, _, _, _)
placeSprites(segments, sprites, lo, hi) ==
  IF hi <= lo THEN segments
  ELSE IF hi = lo + 1 THEN placeSprite(segments, sprites[hi])
  ELSE LET mid   == (lo + hi) \div 2
           first == placeSprites(segments, sprites, lo, mid)
       IN IF first = <<>> THEN first
          ELSE placeSprites(first, sprites, mid, hi)

\* Variant: the segments left as the pieces made them.
ensureSegments_none(segments) == segments

\* "Ensure we have at least some segments"
ensureSegments(segments) ==
  IF Len(segments) = 0 THEN addStraight(segments, 100) ELSE segments

\* The Track after buildFromData(data).
buildFromData(data) ==
  LET segs == ensureSegments(piecesLoop(<<>>, data.pieces, 0, Len(data.pieces))) IN
    [currentPieces |-> data.pieces,
     trackLength   |-> trackLengthOf(segs),
     segments      |-> placeSprites(calculateYPositions(segs), data.sprites, 0,
                                     Len(data.sprites))]

\* generateId(): a random string that nothing in the engine compares.
generateId == "id"

\* The PlacedSprite list of getTrackData for segments lo+1 .. hi, segment by
\* segment and within a segment in list order.
RECURSIVE exportSprites(_, _, _)
exportSprites(segments, lo, hi) ==
  IF hi <= lo THEN <<>>
  ELSE IF hi = lo + 1
    THEN [j \in 1..Len(segments[hi].sprites) |->
            [id           |-> generateId,
             segmentIndex |-> hi - 1,
             type         |-> segments[hi].sprites[j].type,
             offset       |-> segments[hi].sprites[j].offset]]
  ELSE LET mid == (lo + hi) \div 2 IN
         exportSprites(segments, lo, mid) \o exportSprites(segments, mid, hi)

\* Variant: an export that leaves the sprites out.
getTrackData_bare(t) == [pieces |-> t.currentPieces, sprites |-> <<>>]

getTrackData(track) ==
  [pieces  |-> track.currentPieces,
   sprites |-> exportSprites(track.segments, 0, Len(track.segments))]

-----------------------------------------------------------------------------
(* Procedural generation (Track.buildRandomTrack) *)

\* Math.random(): the k-th value drawn in a build.  Which values come is
\* outside the program; a seed fixes one sequence of values in [0, 1), each
\* a multiple of 1/64.
Random(seed, k) ==
  Canon(((seed * 29 + 17) * (k + 1) * (k + 3) + k * 11 + seed) % 64, -6)

\* Math.floor(Math.random() * n)
randomInt(seed, k, n) == Floor(FMul(Random(seed, k), Num(n)))

\* Math.random() * span - half
randomSpan(seed, k, span, half) ==
  FSub(FMul(Random(seed, k), Num(span)), Num(half))

curveHillLoop(segments, phase, count, curve, height) ==
  segments \o
    [j \in 1..count |->
       LET i == j - 1
           t == CASE phase = "enter" -> FDiv(Num(i), Num(count))
                  [] phase = "hold"  -> One
                  [] phase = "exit"  -> FSub(One, FDiv(Num(i), Num(count)))
       IN IF phase = "hold"
            THEN newSegment(Len(segments) + i, curve, height)
            ELSE newSegment(Len(segments) + i, FMul(curve, t), FMul(height, t))]

addCurveWithHill(segments, count, curve, height) ==
  LET s1 == curveHillLoop(segments, "enter", enterCountOf(count), curve, height)
      s2 == curveHillLoop(s1, "hold", holdCountOf(count), curve, height)
  IN curveHillLoop(s2, "exit", exitCountOf(count), curve, height)

newPiece(type, length, value) ==
  [id |-> generateId, type |-> type, length |-> length, value |-> value]

\* The retained pieces of a combined curve + hill section.
combinedPieces(length, curveIntensity, hillHeight) ==
  <<newPiece("curve", length \div 2, curveIntensity),
    newPiece("hill", length \div 2, hillHeight)>>

\* One pass of the loop over the sections; st = [segs, pieces, k], k counting
\* the values drawn so far.
section(st, seed) ==
  LET sectionType == Random(seed, st.k) IN
    IF FLt(sectionType, Dec(3, 10))
      THEN LET length == 30 + randomInt(seed, st.k + 1, 50) IN
        [segs   |-> addStraight(st.segs, length),
                     pieces |-> Append(st.pieces, newPiece("straight", length, Zero)),
                     k      |-> st.k + 2]
    ELSE IF FLt(sectionType, Dec(6, 10))
      THEN LET length    == 30 + randomInt(seed, st.k + 1, 50)
               intensity == randomSpan(seed, st.k + 2, 6, 3)
           IN [segs   |-> addCurve(st.segs, length, intensity),
                           pieces |-> Append(st.pieces, newPiece("curve", length, intensity)),
                           k      |-> st.k + 3]
    ELSE IF FLt(sectionType, Dec(85, 100))
      THEN LET length == 40 + randomInt(seed, st.k + 1, 80)
               height == randomSpan(seed, st.k + 2, 300, 150)
           IN [segs   |-> addHill(st.segs, length, height),
                           pieces |-> Append(st.pieces, newPiece("hill", length, height)),
                           k      |-> st.k + 3]
    ELSE LET length         == 40 + randomInt(seed, st.k + 1, 60)
             curveIntensity == randomSpan(seed, st.k + 2, 4, 2)
             hillHeight     == randomSpan(seed, st.k + 3, 200, 100)
         IN [segs   |-> addCurveWithHill(st.segs, length, curveIntensity, hillHeight),
                         pieces |-> st.pieces \o combinedPieces(length, curveIntensity, hillHeight),
                         k      |-> st.k + 4]

\* The loop over the sections lo+1 .. hi, the first half of the passes
\* completed before the second half starts.
RECURSIVE sectionLoop(_, _, _, _)
sectionLoop(st, seed, lo, hi) ==
  IF hi <= lo THEN st
  ELSE IF hi = lo + 1 THEN section(st, seed)
  ELSE LET mid   == (lo + hi) \div 2
           first == sectionLoop(st, seed, lo, mid)
       IN IF first.k <= st.k THEN first
          ELSE sectionLoop(first, seed, mid, hi)

\* Sprite registry category lists (SpriteRegistry.ts) as addSprites uses them.
TREE_SPRITES == <<"palm_tree", "tree1", "tree2", "dead_tree1", "dead_tree2">>

VEGETATION_SPRITES == <<"bush1", "bush2", "cactus", "stump">>

ROCK_SPRITES == <<"boulder1", "boulder2", "boulder3">>

BILLBOARD_SPRITES ==
  <<"billboard01", "billboard02", "billboard03", "billboard04", "billboard05",
    "billboard06", "billboard07", "billboard08", "billboard09">>

\* list[Math.floor(Math.random() * list.length)]
pick(list, seed, k) == list[randomInt(seed, k, Len(list)) + 1]

\* base + Math.random() * random
spread(base, random, seed, k) == FAdd(base, FMul(Random(seed, k), random))

\* The "if" statements of the addSprites loop body, in order
\* (SPRITE_PLACEMENT): a sprite every interval segments, its type drawn from
\* types, at side * (base + Math.random() * random); fixed marks the columns,
\* which draw nothing, and side 0 a side that is itself drawn.
placement(interval, types, side, base, random, fixed) ==
  [interval |-> interval, types |-> types, side |-> side, base |-> base,
   random |-> random, fixed |-> fixed]

SPRITE_RULES ==
  <<placement(12, TREE_SPRITES, -1, Dec(13, 10), Dec(5, 10), FALSE),
    placement(15, TREE_SPRITES, 1, Dec(13, 10), Dec(5, 10), FALSE),
    placement(20, VEGETATION_SPRITES, -1, Dec(115, 100), Dec(2, 10), FALSE),
    placement(25, VEGETATION_SPRITES, 1, Dec(115, 100), Dec(2, 10), FALSE),
    placement(30, <<"column">>, -1, Dec(11, 10), Zero, TRUE),
    placement(30, <<"column">>, 1, Dec(11, 10), Zero, TRUE),
    placement(40, ROCK_SPRITES, -1, Dec(15, 10), Dec(3, 10), FALSE),
    placement(80, BILLBOARD_SPRITES, 0, Dec(14, 10), Dec(3, 10), FALSE)>>

\* Math.random() > 0.5 ? 1 : -1, or the side the rule fixes.
sideOf(rule, seed, k) ==
  IF rule.side # 0 THEN Num(rule.side)
  ELSE IF FLt(Dec(5, 10), Random(seed, k)) THEN One ELSE FNeg(One)

\* The sprite a rule pushes when k values have been drawn.
ruleSprite(rule, seed, k) ==
  IF rule.fixed
    THEN [type |-> rule.types[1], offset |-> FMul(Num(rule.side), rule.base)]
    ELSE [type   |-> pick(rule.types, seed, k),
          offset |-> FMul(sideOf(rule, seed, k + 1),
                          spread(rule.base, rule.random, seed,
                                 IF rule.side = 0 THEN k + 2 ELSE k + 1))]

\* The number of values a rule draws.
ruleDraws(rule) == IF rule.fixed THEN 0 ELSE IF rule.side = 0 THEN 3 ELSE 2

\* One "if" of the loop body; st = [sprites, k].
applyRule(st, i, seed, rule) ==
  IF i % rule.interval = 0
    THEN [sprites |-> Append(st.sprites, ruleSprite(rule, seed, st.k)),
          k       |-> st.k + ruleDraws(rule)]
    ELSE st

RECURSIVE rulesLoop(_, _, _, _)
rulesLoop(st, i, seed, r) ==
  IF r > Len(SPRITE_RULES) THEN st
  ELSE rulesLoop(applyRule(st, i, seed, SPRITE_RULES[r]), i, seed, r + 1)

\* The body of the addSprites loop for segment i: the sprites pushed and the
\* number of values drawn, k0 having been drawn before.
spritesAt(i, seed, k0) == rulesLoop([sprites |-> <<>>, k |-> k0], i, seed, 1)

\* The number of values the first r rules have drawn in the passes before
\* segment i: a rule draws in every pass whose index its interval divides.
RECURSIVE drawsBefore(_, _)
drawsBefore(i, r) ==
  IF r = 0 THEN 0
  ELSE drawsBefore(i, r - 1)
         + ruleDraws(SPRITE_RULES[r])
             * ((i + SPRITE_RULES[r].interval - 1) \div SPRITE_RULES[r].interval)

\* addSprites: the loop over all segments, k values having been drawn before
\* it.
addSprites(segments, seed, k) ==
  <<>> \o
    [n \in 1..Len(segments) |->
       [segments[n] EXCEPT !.sprites =
          @ \o spritesAt(n - 1, seed,
                         k + drawsBefore(n - 1, Len(SPRITE_RULES))).sprites]]

\* The Track after buildRandomTrack() when Math.random() yields the seed's
\* sequence of values.
buildRandomTrack(seed) ==
  LET numSections == 12 + randomInt(seed, 0, 20 - 12)
      startLength == 30 + randomInt(seed, 1, 30)
      st0 == [segs   |-> addStraight(<<>>, startLength),
              pieces |-> <<newPiece("straight", startLength, Zero)>>,
              k      |-> 2]
      st1 == sectionLoop(st0, seed, 0, numSections)
      endLength == 40 + randomInt(seed, st1.k, 40)
      segs == addStraight(st1.segs, endLength)
      withY == calculateYPositions(segs)
  IN [currentPieces |-> Append(st1.pieces, newPiece("straight", endLength, Zero)),
      trackLength   |-> trackLengthOf(segs),
      segments      |-> addSprites(withY, seed, st1.k + 1)]

-----------------------------------------------------------------------------
(* Track.getSegment *)

\* The % operator on integers: the sign of the dividend.
JsMod(a, n) == IF a >= 0 THEN a % n ELSE -((-a) % n)

\* Math.floor(z / segmentLength) % segments.length
segmentIndexOf(segments, z) ==
  JsMod(Floor(FDiv(z, Num(segmentLength))), Len(segments))

\* Variant: the index is used as the remainder gives it.
slotOf_raw(segments, z) == segmentIndexOf(segments, z)

\* index < 0 ? index + segments.length : index
slotOf(segments, z) ==
  LET index == segmentIndexOf(segments, z) IN
    IF index < 0 THEN index + Len(segments) ELSE index

getSegment(segments, z) == segments[slotOf(segments, z) + 1]

-----------------------------------------------------------------------------
(* Vehicle physics (Game.update) *)

\* CAMERA.HEIGHT, CAMERA.DEPTH, CAMERA.ROAD_WIDTH
cameraHeight == Num(1000)

cameraDepth == Dec(84, 100)

roadWidth == Num(2000)

\* dt * steeringRate * speedPercent * (1 - speedPercent * steeringSpeedScale)
steerRateOf(dt, rate, speedPercent, speedScale) ==
  FMul(FMul(FMul(dt, rate), speedPercent),
       FSub(One, FMul(speedPercent, speedScale)))

\* "Steering - only works when moving"
steer(x, speed, state, steerRate) ==
  IF FLt(Zero, speed)
    THEN LET x1 == IF state.left THEN FSub(x, steerRate) ELSE x
         IN IF state.right THEN FAdd(x1, steerRate) ELSE x1
    ELSE x

\* Math.max(0, Math.abs(x) - 1.0)
offRoadAmountOf(x) == FMax(Zero, FSub(FAbs(x), One))

\* Math.min(offRoadAmount, 1.0)
offRoadFactorOf(x) == FMin(offRoadAmountOf(x), One)

\* The local maxSpeed of update: reduced by how far off the road x is.
maxSpeedAt(p, x) ==
  IF FLt(Zero, offRoadAmountOf(x))
    THEN FSub(p.maxSpeed,
              FMul(FSub(p.maxSpeed, p.offRoadMaxSpeed), offRoadFactorOf(x)))
    ELSE p.maxSpeed

\* Variant: a throttle that ignores where the car is.
throttle_flat(p, x, state, dt) ==
  IF state.up
    THEN FAdd(p.speed, FMul(FMul(p.accel, dt), Num(100)))
  ELSE IF state.down
    THEN FSub(p.speed, FMul(FMul(FMul(p.accel, dt), Num(100)), Num(2)))
  ELSE FSub(p.speed, FMul(FMul(p.decel, dt), Num(100)))

\* Throttle, brake or coast.
throttle(p, x, state, dt) ==
  IF state.up
    THEN LET accelReduction ==
               IF FLt(Zero, offRoadAmountOf(x))
                 THEN FSub(One, FMul(offRoadFactorOf(x), Dec(7, 10)))
                 ELSE One
         IN FAdd(p.speed,
                 FMul(FMul(FMul(p.accel, dt), Num(100)), accelReduction))
  ELSE IF state.down
    THEN FSub(p.speed, FMul(FMul(FMul(p.accel, dt), Num(100)), Num(2)))
  ELSE FSub(p.speed, FMul(FMul(p.decel, dt), Num(100)))

\* "Speed bleeds off faster when turning"
turnBleed(p, speed, state, dt, speedPercent) ==
  IF state.left \/ state.right
    THEN FSub(speed, FMul(FMul(FMul(p.decel, dt), Num(100)), speedPercent))
    ELSE speed

\* Extra deceleration while off the road and above the local maxSpeed.
offRoadBrake(p, speed, x, dt) ==
  IF FLt(Zero, offRoadAmountOf(x)) /\ FLt(maxSpeedAt(p, x), speed)
    THEN FSub(speed, FMul(FMul(FMul(p.offRoadDecel, dt), Num(100)),
                          offRoadFactorOf(x)))
    ELSE speed

\* Variant: the speed kept above 0 only.
clampSpeed_floor(speed, maxSpeed) == FMax(Zero, speed)

\* Math.max(0, Math.min(speed, maxSpeed))
clampSpeed(speed, maxSpeed) == FMax(Zero, FMin(speed, maxSpeed))

\* (position % segmentLength) / segmentLength
percentOf(z) == FDiv(FMod(z, segmentLength), Num(segmentLength))

\* The curve value interpolated between the segment under the car and the
\* next one, clamped to magnitude 5.
curveValueAt(segments, pos) ==
  LET segment       == getSegment(segments, pos)
      nextSegment   == getSegment(segments, FAdd(pos, Num(segmentLength)))
      rawCurveValue ==
        FAdd(segment.curve,
             FMul(FSub(nextSegment.curve, segment.curve), percentOf(pos)))
  IN FMul(Num(FSign(rawCurveValue)), FMin(FAbs(rawCurveValue), Num(5)))

\* Variant: a centrifugal force that ignores the speed.
centrifugalOf_linear(curveValue, speedPercent, dt, force) ==
  FMul(FMul(curveValue, dt), force)

\* curveValue * speedPercent * speedPercent * dt * centrifugalForce
centrifugalOf(curveValue, speedPercent, dt, force) ==
  FMul(FMul(FMul(FMul(curveValue, speedPercent), speedPercent), dt), force)

\* Variant: x left where the forces put it.
clampX_free(x) == x

\* Math.max(-2, Math.min(2, x))
clampX(x) == FMax(Num(-2), FMin(Num(2), x))

\* position + (speed * dt * segmentLength) / 10
advance(pos, speed, dt) ==
  FAdd(pos, FDiv(FMul(FMul(speed, dt), Num(segmentLength)), Num(10)))

\* The road height under the car, slightly ahead of the camera.
roadYAt(segments, pos) ==
  LET z             == FAdd(pos, FMul(cameraHeight, cameraDepth))
      playerSegment == getSegment(segments, z)
  IN FAdd(playerSegment.p1.world.y,
          FMul(FSub(playerSegment.p2.world.y, playerSegment.p1.world.y),
               percentOf(z)))

\* while (position >= trackLength) position -= trackLength
RECURSIVE wrapDown(_, _)
wrapDown(pos, trackLength) ==
  IF FLe(Num(trackLength), pos)
    THEN wrapDown(FSub(pos, Num(trackLength)), trackLength)
    ELSE pos

\* while (position < 0) position += trackLength
RECURSIVE wrapUp(_, _)
wrapUp(pos, trackLength) ==
  IF FLt(pos, Zero)
    THEN wrapUp(FAdd(pos, Num(trackLength)), trackLength)
    ELSE pos

wrap(pos, trackLength) == wrapUp(wrapDown(pos, trackLength), trackLength)

\* Game.update(dt) on the game g = [player, position, playerY, track, state,
\* centrifugalForce, steeringRate, steeringSpeedScale]: the fields it assigns
\* (player, playerY, position) and the values it worked with, in the order
\* of the statements that compute them (throttled, bled and braked are the
\* speed after the throttle, the turning and the off-road statements).
update(g, dt) ==
  LET p            == g.player
      speedPercent == FDiv(p.speed, p.maxSpeed)
      steerRate    == steerRateOf(dt, g.steeringRate, speedPercent,
                                  g.steeringSpeedScale)
      steered      == steer(p.x, p.speed, g.state, steerRate)
      maxSpeed     == maxSpeedAt(p, steered)
      speed1       == throttle(p, steered, g.state, dt)
      speed2       == turnBleed(p, speed1, g.state, dt, speedPercent)
      speed3       == offRoadBrake(p, speed2, steered, dt)
      speed        == clampSpeed(speed3, maxSpeed)
      curveValue   == curveValueAt(g.track.segments, g.position)
      centrifugal  == centrifugalOf(curveValue, speedPercent, dt,
                                    g.centrifugalForce)
      x            == clampX(FSub(steered, centrifugal))
      moved        == advance(g.position, speed, dt)
  IN [dt          |-> dt,
      x           |-> p.x,
      speed       |-> p.speed,
      state       |-> g.state,
      from        |-> g.position,
      steerRate   |-> steerRate,
      steered     |-> steered,
      isOffRoad   |-> FLt(Zero, offRoadAmountOf(steered)),
      maxSpeed    |-> maxSpeed,
      throttled   |-> speed1,
      bled        |-> speed2,
      braked      |-> speed3,
      curveValue  |-> curveValue,
      centrifugal |-> centrifugal,
      player      |-> [p EXCEPT !.speed = speed, !.x = x],
      moved       |-> moved,
      playerY     |-> roadYAt(g.track.segments, moved),
      position    |-> wrap(moved, g.track.trackLength)]

-----------------------------------------------------------------------------
(* Road pass of the renderer (WebGLRenderer.render, Renderer.render) *)

\* RENDER.RETRO_WIDTH and RENDER.RETRO_HEIGHT
width == 640

height == 480

\* Number of segments a road pass visits (renderer.drawDistance).
DrawDistance == 6

\* Variant: behind the camera only the scale is reset.
projectCall_stale(p, cameraX, cameraY, cameraZ) ==
  IF FLe(FSub(p.world.z, cameraZ), Zero)
    THEN [point    |-> [p EXCEPT !.camera.z = FSub(p.world.z, cameraZ),
                                 !.scale = Zero],
          divisors |-> <<>>]
    ELSE [point    |-> [p EXCEPT !.camera.z = FSub(p.world.z, cameraZ),
                                 !.scale = FDiv(cameraDepth,
                                                FSub(p.world.z, cameraZ))],
          divisors |-> <<FSub(p.world.z, cameraZ)>>]

\* Variant: the projection moves the point itself into camera space.
projectCall_moving(p, cameraX, cameraY, cameraZ) ==
  LET camera == [x |-> FSub(p.world.x, cameraX),
                 y |-> FSub(p.world.y, cameraY),
                 z |-> FSub(p.world.z, cameraZ)]
  IN [point    |-> [p EXCEPT !.world  = camera,
                             !.camera = camera,
                             !.scale  = Zero,
                             !.screen = [x |-> 0, y |-> height, w |-> 0]],
      divisors |-> <<>>]

\* Variant: a point that carries a scale from an earlier projection is
\* left as it is.
projectCall_patched(p, cameraX, cameraY, cameraZ) ==
  IF p.scale # Zero
    THEN [point |-> p, divisors |-> <<>>]
    ELSE [point    |-> [p EXCEPT !.camera.z = FSub(p.world.z, cameraZ),
                                 !.screen.y = height],
          divisors |-> <<>>]

\* A call project(p, cameraX, cameraY, cameraZ): the point p afterwards and
\* the divisors of the divisions by camera.z the call performed.
projectCall(p, cameraX, cameraY, cameraZ) ==
  LET camera == [x |-> FSub(p.world.x, cameraX),
                 y |-> FSub(p.world.y, cameraY),
                 z |-> FSub(p.world.z, cameraZ)]
  IN IF FLe(camera.z, Zero)
       THEN [point    |-> [p EXCEPT !.camera = camera,
                                    !.scale  = Zero,
                                    !.screen = [x |-> 0, y |-> height, w |-> 0]],
             divisors |-> <<>>]
       ELSE LET scale == FDiv(cameraDepth, camera.z) IN
         [point |->
            [p EXCEPT
               !.camera = camera,
               !.scale  = scale,
               !.screen =
                 [x |-> Round(FAdd(FDiv(Num(width), Num(2)),
                                   FDiv(FMul(FMul(scale, camera.x), Num(width)),
                                        Num(2)))),
                  y |-> Round(FSub(FDiv(Num(height), Num(2)),
                                   FDiv(FMul(FMul(scale, camera.y), Num(height)),
                                        Num(2)))),
                  w |-> Round(FDiv(FMul(FMul(scale, roadWidth), Num(width)),
                                   Num(2)))]],
          divisors |-> <<camera.z>>]

project(p, cameraX, cameraY, cameraZ) ==
  projectCall(p, cameraX, cameraY, cameraZ).point

\* Variant: a segment at or below the horizon is not skipped.
skipped_behind(segment, maxy) ==
  \/ FLe(segment.p1.camera.z, cameraDepth)
  \/ segment.p2.screen.y >= segment.p1.screen.y

\* The three "continue" conditions of the road loop.
skipped(segment, maxy) ==
  \/ FLe(segment.p1.camera.z, cameraDepth)
  \/ segment.p2.screen.y >= segment.p1.screen.y
  \/ segment.p2.screen.y >= maxy

\* The road loop from pass n on; st = [segments, x, dx, maxy, maxys, calls,
\* pool]: maxys lists the values maxy has taken, calls the calls of project,
\* pool is segmentDataPool up to segmentCount (the segment by its index).
RECURSIVE roadLoop(_, _, _, _, _, _)
roadLoop(st, n, base, pos, trackLength, cam) ==
  IF n >= DrawDistance THEN st
  ELSE
    LET count        == Len(st.segments)
        segmentIndex == (base + n) % count
        segment      == st.segments[segmentIndex + 1]
        looped       == segmentIndex < base
        camZ         == IF looped THEN FSub(pos, Num(trackLength)) ELSE pos
        camY         == FAdd(cam.playerY, cameraHeight)
        camX1        == FSub(FMul(cam.playerX, roadWidth), st.x)
        camX2        == FSub(FSub(FMul(cam.playerX, roadWidth), st.x), st.dx)
        call1        == projectCall(segment.p1, camX1, camY, camZ)
        call2        == projectCall(segment.p2, camX2, camY, camZ)
        p1           == call1.point
        p2           == call2.point
        projected    == [segment EXCEPT !.p1 = p1, !.p2 = p2]
        drawn        == ~skipped(projected, st.maxy)
        maxy         == IF drawn THEN p1.screen.y ELSE st.maxy
    IN roadLoop(
         [segments |-> [st.segments EXCEPT ![segmentIndex + 1] = projected],
          x        |-> FAdd(st.x, st.dx),
          dx       |-> FAdd(st.dx, segment.curve),
          maxy     |-> maxy,
          maxys    |-> IF drawn THEN Append(st.maxys, maxy) ELSE st.maxys,
          calls    |-> st.calls \o <<call1, call2>>,
          pool     |-> Append(st.pool, [index |-> segmentIndex,
                                         clip  |-> st.maxy])],
         n + 1, base, pos, trackLength, cam)

\* render(track, position, playerX, playerY): the road pass.
render(t, pos, playerX, camPlayerY) ==
  LET baseSegment == getSegment(t.segments, pos)
      basePercent == percentOf(pos)
  IN roadLoop([segments |-> t.segments,
               x        |-> Zero,
               dx       |-> FNeg(FMul(baseSegment.curve, basePercent)),
               maxy     |-> height,
               maxys    |-> <<height>>,
               calls    |-> <<>>,
               pool     |-> <<>>],
              0, baseSegment.index, pos, t.trackLength,
              [playerX |-> playerX, playerY |-> camPlayerY])

-----------------------------------------------------------------------------
(* Sprite pass of the renderer, fog, the player's car *)

\* FOG of config/constants.
FOG == [DEFAULT_DENSITY |-> 5, START_DISTANCE |-> 50,
        END_DISTANCE_MULTIPLIER |-> Dec(11, 10)]

\* A call getFogAmount(z) of a renderer with the given drawDistance and
\* fogDensity: the amount returned and the divisors of the divisions made.
fogCall(z, drawDistance, density) ==
  IF density = Zero THEN [amount |-> Zero, divisors |-> <<>>]
  ELSE
    LET fogStart == Num(FOG.START_DISTANCE)
        fogEnd   == FMul(Num(drawDistance),
                         FSub(FOG.END_DISTANCE_MULTIPLIER,
                              FDiv(density, Num(10))))
    IN IF FLe(Num(z), fogStart)
         THEN [amount |-> Zero, divisors |-> <<Num(10)>>]
       ELSE IF FLe(fogEnd, Num(z))
         THEN [amount |-> One, divisors |-> <<Num(10)>>]
       ELSE [amount   |-> FDiv(FSub(Num(z), fogStart), FSub(fogEnd, fogStart)),
             divisors |-> <<Num(10), FSub(fogEnd, fogStart)>>]

getFogAmount(z, drawDistance, density) == fogCall(z, drawDistance, density).amount

\* Variant: a segment is skipped only when its fog amount exceeds 1.
fogged_late(n, drawDistance, density) ==
  [n          |-> n,
   drawDistance |-> drawDistance,
   amount     |-> fogCall(n, drawDistance, density).amount,
   divisors   |-> fogCall(n, drawDistance, density).divisors,
   opacities  |-> IF FLt(One, fogCall(n, drawDistance, density).amount)
                    THEN <<>>
                    ELSE <<FSub(One, fogCall(n, drawDistance, density).amount)>>]

\* The step at distance n of the sprite loop, as far as fog goes: the fog
\* amount of the segment and the opacity buildSpriteGeometry gives each of
\* its sprites (none when the segment is skipped for fogAmount >= 1).
fogged(n, drawDistance, density) ==
  [n          |-> n,
   drawDistance |-> drawDistance,
   amount     |-> fogCall(n, drawDistance, density).amount,
   divisors   |-> fogCall(n, drawDistance, density).divisors,
   opacities  |-> IF FLe(One, fogCall(n, drawDistance, density).amount)
                    THEN <<>>
                    ELSE <<FSub(One, fogCall(n, drawDistance, density).amount)>>]

\* SPRITESHEET_FRAMES of sprites/spritesheet-data: the frame of a sprite type
\* in the sheet, as far as the sizes go.
SPRITESHEET_FRAMES ==
  [tree1    |-> [w |-> 64, h |-> 96],
   bush1    |-> [w |-> 48, h |-> 32],
   column   |-> [w |-> 20, h |-> 100],
   cactus   |-> [w |-> 24, h |-> 48],
   boulder1 |-> [w |-> 40, h |-> 30],
   stump    |-> [w |-> 30, h |-> 20]]

\* SPRITE_REGISTRY, as far as the scales go.
SPRITE_REGISTRY ==
  [tree1    |-> [scale |-> Dec(9, 10)],
   bush1    |-> [scale |-> Dec(4, 10)],
   column   |-> [scale |-> Dec(8, 10)],
   cactus   |-> [scale |-> Dec(5, 10)],
   boulder1 |-> [scale |-> Dec(5, 10)],
   stump    |-> [scale |-> Dec(4, 10)]]

\* buildSpriteGeometry for a sprite of the segment recorded at step n: the
\* quad put into the batch (none, or one).  x, y: the top left corner;
\* finalH: the height drawn; srcClipH: the height left out of the sheet's
\* frame at its lower end;
\* size: the registry's scale by RENDER.SPRITE_SCALE (4) and the road width.
buildSpriteGeometry(type, scale, destX, destY, offsetX, offsetY, clipY, opacity, n) ==
  IF type \notin DOMAIN SPRITESHEET_FRAMES THEN <<>>
  ELSE
    LET frame == SPRITESHEET_FRAMES[type]
        spriteScale == IF type \in DOMAIN SPRITE_REGISTRY
                         THEN SPRITE_REGISTRY[type].scale ELSE One
        size  == FDiv(FMul(FMul(spriteScale, Num(4)), roadWidth), Num(1000))
        destW == FMul(FDiv(FMul(FMul(Num(frame.w), scale), Num(width)), Num(2)),
                      size)
        destH == FMul(FDiv(FMul(FMul(Num(frame.h), scale), Num(width)), Num(2)),
                      size)
        x     == FAdd(destX, FMul(destW, Num(offsetX)))
        y     == FAdd(Num(destY), FMul(destH, Num(offsetY)))
        clipH == IF clipY # 0
                   THEN FMax(Zero, FSub(FAdd(y, destH), Num(clipY)))
                   ELSE Zero
    IN IF FLe(destH, clipH) THEN <<>>
       ELSE <<[n       |-> n,
               type    |-> type,
               x       |-> x,
               y       |-> y,
               destW   |-> destW,
               destH   |-> destH,
               clip    |-> clipY,
               clipH   |-> clipH,
               frameH  |-> frame.h,
               srcClipH |-> FDiv(FMul(Num(frame.h), clipH), destH),
               finalH  |-> FSub(destH, clipH),
               opacity |-> opacity]>>

\* The sprite of the loop body: culled, or handed to buildSpriteGeometry.
spriteQuad(segment, sprite, clip, opacity, n) ==
  LET spriteScale    == segment.p1.scale
      spriteX        == FAdd(Num(segment.p1.screen.x),
                             FDiv(FMul(FMul(FMul(spriteScale, sprite.offset),
                                            roadWidth),
                                       Num(width)),
                                  Num(2)))
      maxSpriteWidth == FMul(FMul(spriteScale, Num(width)), Dec(5, 10))
  IN IF \/ FLt(spriteX, FNeg(maxSpriteWidth))
        \/ FLt(FAdd(Num(width), maxSpriteWidth), spriteX)
       THEN <<>>
       ELSE buildSpriteGeometry(sprite.type, spriteScale, spriteX,
                                segment.p1.screen.y,
                                IF FLt(sprite.offset, Zero) THEN -1 ELSE 0, -1,
                                clip, opacity, n)

\* Variant: the sprite loop runs from the nearest segment to the farthest.
RECURSIVE spriteLoop_forward(_, _, _, _, _)
spriteLoop_forward(segments, pool, density, n, i) ==
  IF n < 1 THEN <<>>
  ELSE
    LET m       == Len(pool) - n
        segment == segments[pool[m + 1].index + 1]
        shade   == fogged(m, DrawDistance, density)
    IN IF shade.opacities = <<>> \/ i > Len(segment.sprites)
         THEN spriteLoop_forward(segments, pool, density, n - 1, 1)
         ELSE spriteQuad(segment, segment.sprites[i], pool[m + 1].clip,
                         shade.opacities[1], m)
                \o spriteLoop_forward(segments, pool, density, n, i + 1)

\* The loop of renderSprites from the sprite i of the segment recorded at
\* step n on (n counts down to 1): the quads put into the batch, in order.
RECURSIVE spriteLoop(_, _, _, _, _)
spriteLoop(segments, pool, density, n, i) ==
  IF n < 1 THEN <<>>
  ELSE
    LET segment == segments[pool[n + 1].index + 1]
        shade   == fogged(n, DrawDistance, density)
    IN IF shade.opacities = <<>> \/ i > Len(segment.sprites)
         THEN spriteLoop(segments, pool, density, n - 1, 1)
         ELSE spriteQuad(segment, segment.sprites[i], pool[n + 1].clip,
                         shade.opacities[1], n)
                \o spriteLoop(segments, pool, density, n, i + 1)

\* Variant: sprites are batched whether or not the sheet is loaded.
renderSprites_always(road, loaded, density) ==
  spriteLoop(road.segments, road.pool, density, Len(road.pool) - 1, 1)

\* renderSprites(segmentCount) after the road pass: the quads drawn.
renderSprites(road, loaded, density) ==
  IF ~loaded THEN <<>>
  ELSE spriteLoop(road.segments, road.pool, density, Len(road.pool) - 1, 1)

\* renderPlayer(steerDirection): the frame of the sheet drawn for the car, or
\* "fallback" for the rectangle of renderPlayerFallback.
renderPlayer(loaded, state) ==
  IF ~loaded THEN "fallback"
  ELSE IF state.right THEN "player_right"
  ELSE IF state.left THEN "player_left"
  ELSE "player_straight"

-----------------------------------------------------------------------------
(* State *)

VARIABLES
  screen,              \* main.ts: "game" or "editor", the active screen
  trackData,           \* the TrackData main.ts and the editor hold
  preview,             \* Editor.preview3dTrack
  edits,               \* number of editor operations so far
  generated,           \* number of random tracks generated so far
  track,               \* Game.track
  running,             \* Game.running
  lastTime,            \* Game.lastTime, in milliseconds
  input,               \* Input.state
  player,              \* Game.player
  centrifugalForce,    \* Game.centrifugalForce
  steeringRate,        \* Game.steeringRate
  steeringSpeedScale,  \* Game.steeringSpeedScale
  position,            \* Game.position
  playerY,             \* Game.playerY
  ticks,               \* number of calls of Game.loop so far
  keyEvents,           \* number of key events Input has handled so far
  upd,                 \* the last Game.update: what it worked with and assigned
  pass,                \* the last road pass of the renderer: its locals at the end
  drawn,               \* the last frame: the sprite quads and the car drawn
  spriteSheetLoaded,   \* renderer.spriteSheetLoaded
  spriteRequest,       \* the Image of loadSprites: "pending", "loaded", "failed"
  fogDensity,          \* renderer.fogDensity
  fog,                 \* a step of the sprite loop followed for its fog alone
  scheduled,           \* frame callbacks of the Game requested and not yet run
  lookup               \* the last call of track.getSegment followed for itself

vars ==
  <<screen, trackData, preview, edits, generated, track, running, lastTime, input, player,
    centrifugalForce, steeringRate, steeringSpeedScale, position, playerY,
    ticks, keyEvents, upd, pass, drawn, spriteSheetLoaded, spriteRequest,
    fogDensity, fog, scheduled, lookup>>

trackVars == <<screen, trackData, preview, edits, generated, track>>

gameVars ==
  <<running, lastTime, input, player, centrifugalForce, steeringRate,
    steeringSpeedScale, position, playerY, ticks, keyEvents, upd, pass,
    drawn, spriteSheetLoaded, spriteRequest, fogDensity, fog, scheduled,
    lookup>>

-----------------------------------------------------------------------------
(* Stored data (localStorage) and construction *)

sprite(segmentIndex, type, offset) ==
  [id |-> generateId, segmentIndex |-> segmentIndex, type |-> type,
   offset |-> offset]

createDefaultTrackData ==
  [pieces  |-> <<newPiece("straight", 50, Zero),
                 newPiece("curve", 50, Num(2)),
                 newPiece("hill", 80, Num(50)),
                 newPiece("straight", 50, Zero),
                 newPiece("hill", 80, Num(-50))>>,
   sprites |-> <<>>]

\* A stored track with short, zero and negative lengths and an unknown piece
\* type; its first segment is curved.
oddTrack ==
  [pieces  |-> <<newPiece("curve", -1, Num(8)), newPiece("hill", 0, Num(5)),
                 newPiece("curve", 1, Num(8)), newPiece("hill", 2, Num(-3)),
                 newPiece("straight", -2, Zero), newPiece("hill", 3, Num(8)),
                 newPiece("bridge", 4, Num(1)), newPiece("straight", 2, Zero)>>,
   sprites |-> <<sprite(1, "boulder1", Dec(15, 10))>>]

\* A stored track none of whose pieces pushes a segment, with sprites on the
\* last segment of the 100 it gets and beyond it.
idleTrack ==
  [pieces  |-> <<newPiece("curve", 0, Num(8)), newPiece("bridge", 4, One),
                 newPiece("straight", -2, Zero)>>,
   sprites |-> <<sprite(100, "tree1", Dec(-13, 10)),
                 sprite(99, "column", Dec(11, 10)),
                 sprite(99, "bush1", Dec(12, 10))>>]

\* A stored track with a crest, a dip behind it and a curve, and sprites on
\* the road from the crest on.
hillyTrack ==
  [pieces  |-> <<newPiece("straight", 1, Zero), newPiece("hill", 1, Num(100)),
                 newPiece("hill", 1, Num(-200)), newPiece("hill", 1, Num(200)),
                 newPiece("curve", 4, Num(8)), newPiece("straight", 2, Zero)>>,
   sprites |-> <<sprite(2, "column", Dec(-1, 10)),
                 sprite(3, "tree1", Dec(5, 100)),
                 sprite(4, "bush1", Zero),
                 sprite(5, "boulder1", Dec(-5, 100))>>]

\* What loadTrackData() || createDefaultTrackData() may yield at start-up:
\* the default track, or a stored track.  A stored track is outside the
\* program's control: empty, with short, zero and negative lengths, with an
\* unknown piece type, with sprites beyond the last segment.
SavedTracks ==
  { createDefaultTrackData,
    [pieces |-> <<>>, sprites |-> <<sprite(3, "tree1", Dec(-13, 10))>>],
    [pieces  |-> <<newPiece("curve", 40, Num(8))>>,
     sprites |-> <<sprite(5, "tree1", Dec(-13, 10)),
                   sprite(2, "column", Dec(11, 10)),
                   sprite(5, "bush1", Dec(12, 10)),
                   sprite(40, "cactus", Dec(15, 10)),
                   sprite(-1, "stump", Dec(-15, 10))>>],
    [pieces  |-> <<newPiece("hill", 12, One), newPiece("hill", 7, Num(-3)),
                   newPiece("curve", 5, Num(-3))>>,
     sprites |-> <<>>],
    oddTrack,
    hillyTrack,
    idleTrack }

\* Game.player as declared.
defaultPlayer ==
  [x               |-> Zero,
   speed           |-> Zero,
   maxSpeed        |-> Num(600),
   accel           |-> Num(2),
   decel           |-> Dec(5, 10),
   offRoadDecel    |-> One,
   offRoadMaxSpeed |-> Num(200)]

\* What loadPhysicsSettings() may yield: null (the empty sequence) or the
\* settings last saved from the debug panel (a sequence of one record).
SavedSettings ==
  { <<>>,
    <<[centrifugalForce |-> Num(10), steeringRate |-> Num(60),
       steeringSpeedScale |-> Dec(50, 100), maxSpeed |-> Num(10),
       accel |-> Num(10), offRoadMaxSpeed |-> Num(2),
       fogDensity |-> Num(10)]>> }

\* Game.player after loadSettings() found saved.
loadedPlayer(saved) ==
  IF saved = <<>> THEN defaultPlayer
  ELSE [defaultPlayer EXCEPT !.maxSpeed        = saved[1].maxSpeed,
                             !.accel           = saved[1].accel,
                             !.offRoadMaxSpeed = saved[1].offRoadMaxSpeed]

\* The physics tunables of a Game after loadSettings() found saved.
loadedTunables(saved) ==
  IF saved = <<>>
    THEN [centrifugalForce |-> Num(3), steeringRate |-> Num(3),
          steeringSpeedScale |-> Dec(5, 10)]
    ELSE [centrifugalForce   |-> saved[1].centrifugalForce,
          steeringRate       |-> saved[1].steeringRate,
          steeringSpeedScale |-> saved[1].steeringSpeedScale]

\* renderer.fogDensity after loadSettings() found saved.
loadedFog(saved) ==
  IF saved = <<>> THEN Num(FOG.DEFAULT_DENSITY) ELSE saved[1].fogDensity

\* Input.state as declared.
noKeys == [left |-> FALSE, right |-> FALSE, up |-> FALSE, down |-> FALSE]

\* No Track: the editor's preview before the editor exists.
NoTrack == [segments |-> <<>>, trackLength |-> 0, currentPieces |-> <<>>]

\* No update yet.
NoUpdate == [player |-> defaultPlayer, playerY |-> Zero, position |-> Zero,
             dt |-> Zero, x |-> Zero, speed |-> Zero, state |-> noKeys,
             steerRate |-> Zero, steered |-> Zero, isOffRoad |-> FALSE,
             maxSpeed |-> Zero, throttled |-> Zero, bled |-> Zero,
             braked |-> Zero, curveValue |-> Zero, centrifugal |-> Zero,
             from |-> Zero, moved |-> Zero]

\* No road pass yet.
NoPass == [segments |-> <<>>, x |-> Zero, dx |-> Zero, maxy |-> height,
           maxys |-> <<>>, calls |-> <<>>, pool |-> <<>>]

\* No call of getSegment followed yet.
NoLookup == [z |-> Zero, slot |-> -1, segment |-> <<>>]

\* No frame yet.
NoFrame == [quads |-> <<>>, player |-> "none"]

\* main.ts at load: showGame(savedTrack || createDefaultTrackData()).  The
\* sprite sheet's Image has answered (loaded) or not; the step of the sprite
\* loop followed for its fog is the one at distance 0 of a renderer with the
\* draw distance given.
StartWith(data, saved, p, loaded, drawDistance) ==
  /\ screen = "game"
  /\ trackData = data
  /\ preview = NoTrack
  /\ edits = 0
  /\ generated = 0
  /\ track = buildFromData(data)
  /\ running = TRUE
  /\ lastTime = 0
  /\ input = noKeys
  /\ player = p
  /\ centrifugalForce = loadedTunables(saved).centrifugalForce
  /\ steeringRate = loadedTunables(saved).steeringRate
  /\ steeringSpeedScale = loadedTunables(saved).steeringSpeedScale
  /\ position = Zero
  /\ playerY = Zero
  /\ ticks = 0
  /\ keyEvents = 0
  /\ upd = NoUpdate
  /\ pass = NoPass
  /\ drawn = NoFrame
  /\ spriteSheetLoaded = loaded
  /\ spriteRequest = IF loaded THEN "loaded" ELSE "pending"
  /\ fogDensity = loadedFog(saved)
  /\ fog = fogged(0, drawDistance, loadedFog(saved))
  /\ scheduled = 1
  /\ lookup = NoLookup

\* A Game constructed on the track data, with the settings saved, the sprite
\* sheet loaded by the first frame.
Start(data, saved) ==
  StartWith(data, saved, loadedPlayer(saved), TRUE, DrawDistance)

-----------------------------------------------------------------------------
(* The track: random generation, the editor, the two screens *)

\* Values of Math.random() sequences considered.
Seeds == {0, 1}

\* Bounds of the exploration: at most MaxGenerated random tracks are
\* generated, and they are generated before any editing; the editor is taken
\* through at most MaxEdits operations, on the first MaxPieces pieces and the
\* first MaxSprites sprites of its lists, and on hand-made tracks only.
MaxGenerated == 2

MaxEdits == 1

MaxPieces == 1

MaxSprites == 1

EditTypes == {"straight", "curve", "hill"}

EditLengths == {1, 4, 9}

EditValues == {-3, 8}

\* Game.generateRandomTrack (the "random track" button).
GenerateRandomTrack(seed) ==
  /\ screen = "game"
  /\ edits = 0
  /\ generated < MaxGenerated
  /\ generated' = generated + 1
  /\ track' = buildRandomTrack(seed)
  /\ position' = Zero
  /\ player' = [player EXCEPT !.x = Zero, !.speed = Zero]
  /\ playerY' = Zero
  /\ UNCHANGED <<screen, trackData, preview, edits, running, lastTime, input,
                 centrifugalForce, steeringRate, steeringSpeedScale, ticks,
                 keyEvents, upd, pass, drawn, spriteSheetLoaded, spriteRequest,
                 fogDensity, fog, scheduled, lookup>>

\* Escape in the game: Game.handleKeyDown, then showEditor of main.ts.
ShowEditor ==
  /\ screen = "game"
  /\ screen' = "editor"
  /\ running' = FALSE
  /\ trackData' = getTrackData(track)
  /\ preview' = buildFromData(trackData')
  /\ UNCHANGED <<edits, generated, track, lastTime, input, player,
                 centrifugalForce, steeringRate, steeringSpeedScale, position,
                 playerY, ticks, keyEvents, upd, pass, drawn, spriteSheetLoaded,
                 spriteRequest, fogDensity, fog, scheduled, lookup>>

\* The play button: showGame(trackData) builds and starts a new Game, whose
\* renderer requests the sprite sheet anew and whose start() requests its
\* first frame.
Play ==
  /\ screen = "editor"
  /\ screen' = "game"
  /\ track' = buildFromData(trackData)
  /\ running' = TRUE
  /\ lastTime' = 0
  /\ input' = noKeys
  /\ player' = loadedPlayer(<<>>)
  /\ centrifugalForce' = loadedTunables(<<>>).centrifugalForce
  /\ steeringRate' = loadedTunables(<<>>).steeringRate
  /\ steeringSpeedScale' = loadedTunables(<<>>).steeringSpeedScale
  /\ position' = Zero
  /\ playerY' = Zero
  /\ spriteSheetLoaded' = FALSE
  /\ spriteRequest' = "pending"
  /\ fogDensity' = loadedFog(<<>>)
  /\ scheduled' = 1
  /\ UNCHANGED <<trackData, preview, edits, generated, ticks, keyEvents, upd,
                 pass, drawn, fog, lookup>>

\* An editor operation that leaves data in trackData: every one of them ends
\* with rebuild3dPreview().
Edit(data) ==
  /\ screen = "editor"
  /\ generated = 0
  /\ edits < MaxEdits
  /\ edits' = edits + 1
  /\ trackData' = data
  /\ preview' = buildFromData(data)
  /\ UNCHANGED <<screen, generated, track>>
  /\ UNCHANGED gameVars

editable == 1..Min(Len(trackData.pieces), MaxPieces)

AddPiece ==
  /\ Len(trackData.pieces) < MaxPieces
  /\ Edit([trackData EXCEPT
             !.pieces = Append(@, newPiece("straight", 50, Zero))])

SetPieceType(i, type) ==
  /\ i \in editable
  /\ Edit([trackData EXCEPT !.pieces[i].type = type])

SetPieceLength(i, length) ==
  /\ i \in editable
  /\ Edit([trackData EXCEPT !.pieces[i].length = length])

SetPieceValue(i, value) ==
  /\ i \in editable
  /\ Edit([trackData EXCEPT !.pieces[i].value = Num(value)])

\* splice(index, 1)
removeAt(list, i) ==
  [j \in 1..(Len(list) - 1) |-> IF j < i THEN list[j] ELSE list[j + 1]]

\* splice(newIndex, 0, item)
insertAt(list, i, item) ==
  [j \in 1..(Len(list) + 1) |->
     IF j < i THEN list[j] ELSE IF j = i THEN item ELSE list[j - 1]]

DeletePiece(i) ==
  /\ i \in editable
  /\ Edit([trackData EXCEPT !.pieces = removeAt(@, i)])

MovePiece(i, direction) ==
  /\ i \in editable
  /\ i + direction >= 1
  /\ i + direction <= Len(trackData.pieces)
  /\ Edit([trackData EXCEPT
             !.pieces = insertAt(removeAt(@, i), i + direction, @[i])])

\* The number of points of the editor's trackPath.
RECURSIVE pathLength(_, _)
pathLength(pieces, k) ==
  IF k > Len(pieces) THEN 0
  ELSE Max(pieces[k].length, 0) + pathLength(pieces, k + 1)

\* A click on the canvas near the path point of segment segmentIndex.
PlaceSprite(segmentIndex, type, offset) ==
  /\ Len(trackData.sprites) < MaxSprites
  /\ segmentIndex >= 0
  /\ segmentIndex < pathLength(trackData.pieces, 1)
  /\ Edit([trackData EXCEPT
             !.sprites = Append(@, sprite(segmentIndex, type, Dec(offset, 10)))])

\* The segment field of the selected sprite.
MoveSprite(i, segmentField) ==
  /\ i \in 1..Min(Len(trackData.sprites), MaxSprites)
  /\ Edit([trackData EXCEPT
             !.sprites[i].segmentIndex =
                Max(0, Min(pathLength(trackData.pieces, 1) - 1, segmentField))])

DeleteSprite(i) ==
  /\ i \in 1..Min(Len(trackData.sprites), MaxSprites)
  /\ Edit([trackData EXCEPT !.sprites = removeAt(@, i)])

ClearTrack == Edit(createDefaultTrackData)

InitTrack == \E data \in SavedTracks : Start(data, <<>>)

NextTrack ==
  \/ \E seed \in Seeds : GenerateRandomTrack(seed)
  \/ ShowEditor
  \/ Play
  \/ AddPiece
  \/ \E i \in 1..MaxPieces, type \in EditTypes : SetPieceType(i, type)
  \/ \E i \in 1..MaxPieces, length \in EditLengths : SetPieceLength(i, length)
  \/ \E i \in 1..MaxPieces, value \in EditValues : SetPieceValue(i, value)
  \/ \E i \in 1..MaxPieces : DeletePiece(i)
  \/ \E i \in 1..MaxPieces, direction \in {-1, 1} : MovePiece(i, direction)
  \/ \E segmentIndex \in {0, 3}, type \in {"tree1"}, offset \in {-13} :
       PlaceSprite(segmentIndex, type, offset)
  \/ \E i \in 1..MaxSprites, segmentField \in {-1, 2, 500} : MoveSprite(i, segmentField)
  \/ \E i \in 1..MaxSprites : DeleteSprite(i)
  \/ ClearTrack

SpecTrack == InitTrack /\ [][NextTrack]_vars

-----------------------------------------------------------------------------
(* The game: key events and animation frames *)

\* Bounds of the exploration: at most MaxTicks animation frames and
\* MaxKeyEvents key events are followed.
MaxTicks == 2

MaxKeyEvents == 2

\* currentTime - lastTime of an animation frame, in milliseconds: a frame
\* stamped before start() read the clock, a frame at the same instant, a
\* frame at 60 Hz and one after a pause.
FrameDeltas == {-5, 0, 16, 250}

Keys == {"left", "right", "up", "down"}

\* Input.handleKey(e, pressed) for a key bound to a flag, the flag changing.
HandleKey(key, pressed) ==
  /\ screen = "game"
  /\ keyEvents < MaxKeyEvents
  /\ ticks < MaxTicks
  /\ input[key] # pressed
  /\ input' = [input EXCEPT ![key] = pressed]
  /\ keyEvents' = keyEvents + 1
  /\ UNCHANGED trackVars
  /\ UNCHANGED <<running, lastTime, player, centrifugalForce, steeringRate,
                 steeringSpeedScale, position, playerY, ticks, upd, pass,
                 drawn, spriteSheetLoaded, spriteRequest, fogDensity, fog,
                 scheduled, lookup>>

\* Math.min((currentTime - lastTime) / 1000, 0.1)
frameTime(currentTime, last) ==
  FMin(FDiv(Num(currentTime - last), Num(1000)), Dec(1, 10))

\* Variant: the frame callback does not look at running.
loopRuns_always(isRunning) == TRUE

\* "if (!this.running) return;" at the head of Game.loop.
loopRuns(isRunning) == isRunning

\* Game.loop(currentTime), a frame callback requested by start() or by the
\* loop before.  The game stopped: it returns at once and requests no other
\* frame.  The game running: update(dt), then render() (the road pass, the
\* sprite pass, the car), then the request of the next frame.
Loop(currentTime) ==
  /\ scheduled > 0
  /\ IF ~loopRuns(running)
       THEN /\ scheduled' = scheduled - 1
            /\ UNCHANGED trackVars
            /\ UNCHANGED <<running, lastTime, input, player, centrifugalForce,
                           steeringRate, steeringSpeedScale, position, playerY,
                           ticks, keyEvents, upd, pass, drawn,
                           spriteSheetLoaded, spriteRequest, fogDensity, fog,
                           lookup>>
       ELSE /\ ticks < MaxTicks
            /\ upd' = update([player             |-> player,
                              position           |-> position,
                              playerY            |-> playerY,
                              track              |-> track,
                              state              |-> input,
                              centrifugalForce   |-> centrifugalForce,
                              steeringRate       |-> steeringRate,
                              steeringSpeedScale |-> steeringSpeedScale],
                             frameTime(currentTime, lastTime))
            /\ player' = upd'.player
            /\ playerY' = upd'.playerY
            /\ position' = upd'.position
            /\ pass' = render(track, position', player'.x, playerY')
            /\ track' = [track EXCEPT !.segments = pass'.segments]
            /\ drawn' = [quads  |-> renderSprites(pass', spriteSheetLoaded,
                                                  fogDensity),
                         player |-> renderPlayer(spriteSheetLoaded, input)]
            /\ lastTime' = currentTime
            /\ ticks' = ticks + 1
            /\ scheduled' = scheduled
            /\ UNCHANGED <<screen, trackData, preview, edits, generated,
                           running, input, centrifugalForce, steeringRate,
                           steeringSpeedScale, keyEvents, spriteSheetLoaded,
                           spriteRequest, fogDensity, fog, lookup>>

\* A stored track of four segments, fewer than a road pass visits, with
\* sprites near the middle of the road on both sides, one of a type without a
\* frame and one beside the road.
shortTrack ==
  [pieces  |-> <<newPiece("straight", 2, Zero), newPiece("curve", 2, Num(2))>>,
   sprites |-> <<sprite(1, "tree1", Dec(-5, 100)),
                 sprite(2, "column", Dec(1, 10)),
                 sprite(3, "bush1", Dec(2, 10)),
                 sprite(3, "ufo", Dec(-1, 10)),
                 sprite(3, "cactus", Dec(-13, 10))>>]

\* A stored track with a climb steep enough to take the road to the top edge
\* of the screen, a drop behind its crest down to where the car's height is
\* taken, and sprites on the road there.
steepTrack ==
  [pieces  |-> <<newPiece("straight", 1, Zero), newPiece("hill", 1, Num(476)),
                 newPiece("hill", 1, Num(424)), newPiece("hill", 1, Num(-1900)),
                 newPiece("straight", 2, Zero)>>,
   sprites |-> <<sprite(3, "column", Dec(5, 100)),
                 sprite(4, "tree1", Dec(-5, 100)),
                 sprite(5, "bush1", Zero)>>]

\* The tracks the game is followed on.
GameTracks == {oddTrack, hillyTrack, shortTrack}

InitGame == \E data \in GameTracks, saved \in SavedSettings : Start(data, saved)

NextGame ==
  \/ \E key \in Keys, pressed \in BOOLEAN : HandleKey(key, pressed)
  \/ \E delta \in FrameDeltas : Loop(lastTime + delta)

SpecGame == InitGame /\ [][NextGame]_vars

\* The game entered with the car fully off the road at x = 1.8, at rest or at
\* the top speed of the road.
InitOffRoad ==
  \E saved \in SavedSettings, atRest \in BOOLEAN :
    StartWith(hillyTrack, saved,
              [loadedPlayer(saved) EXCEPT
                 !.x     = Dec(18, 10),
                 !.speed = IF atRest THEN Zero ELSE loadedPlayer(saved).maxSpeed],
              TRUE, DrawDistance)

SpecOffRoad == InitOffRoad /\ [][NextGame]_vars

\* The game on the short track, moving or at rest, and Escape: the game is
\* stopped and the editor shown while a frame callback is still requested.
InitStop ==
  \E atRest \in BOOLEAN :
    StartWith(shortTrack, <<>>,
              [defaultPlayer EXCEPT
                 !.speed = IF atRest THEN Zero ELSE Num(300)],
              TRUE, DrawDistance)

SpecStop == InitStop /\ [][NextGame \/ ShowEditor]_vars

-----------------------------------------------------------------------------
(* The sprite sheet arriving while the game runs *)

\* image.onload of loadSprites: the texture is made, the flag set.
OnLoad ==
  /\ spriteRequest = "pending"
  /\ spriteRequest' = "loaded"
  /\ spriteSheetLoaded' = TRUE
  /\ UNCHANGED trackVars
  /\ UNCHANGED <<running, lastTime, input, player, centrifugalForce,
                 steeringRate, steeringSpeedScale, position, playerY, ticks,
                 keyEvents, upd, pass, drawn, fogDensity, fog, scheduled,
                 lookup>>

\* image.onerror of loadSprites: a warning, nothing else.
OnError ==
  /\ spriteRequest = "pending"
  /\ spriteRequest' = "failed"
  /\ UNCHANGED trackVars
  /\ UNCHANGED <<running, lastTime, input, player, centrifugalForce,
                 steeringRate, steeringSpeedScale, position, playerY, ticks,
                 keyEvents, upd, pass, drawn, spriteSheetLoaded, fogDensity,
                 fog, scheduled, lookup>>

\* The game on a short and on a steep track from its construction, the sheet
\* requested.
InitSheet ==
  \E data \in {shortTrack, steepTrack} :
    StartWith(data, <<>>, defaultPlayer, FALSE, DrawDistance)

SpecSheet == InitSheet /\ [][NextGame \/ OnLoad \/ OnError]_vars

-----------------------------------------------------------------------------
(* Fog by distance *)

\* Fog densities considered: the slider's 0 to 10, and saved values beyond.
FogDensities == {-1, 0, 1, 5, 6, 10, 11, 12}

\* Draw distances considered: the game's, the editor preview's, short ones.
DrawDistances == {350, 100, 50, DrawDistance}

\* The sprite loop is followed up to this distance.
MaxFogStep == 400

InitFog ==
  \E density \in FogDensities, drawDistance \in DrawDistances :
    StartWith(shortTrack,
              <<[centrifugalForce |-> Num(3), steeringRate |-> Num(3),
                 steeringSpeedScale |-> Dec(5, 10), maxSpeed |-> Num(600),
                 accel |-> Num(2), offRoadMaxSpeed |-> Num(200),
                 fogDensity |-> Num(density)]>>,
              defaultPlayer, TRUE, drawDistance)

\* The step of the sprite loop one segment farther.
FogStep ==
  /\ fog.n < MaxFogStep
  /\ fog' = fogged(fog.n + 1, fog.drawDistance, fogDensity)
  /\ UNCHANGED trackVars
  /\ UNCHANGED <<running, lastTime, input, player, centrifugalForce,
                 steeringRate, steeringSpeedScale, position, playerY, ticks,
                 keyEvents, upd, pass, drawn, spriteSheetLoaded, spriteRequest,
                 fogDensity, scheduled, lookup>>

SpecFog == InitFog /\ [][FogStep]_vars

\* A stored track of one segment.
singleTrack == [pieces |-> <<newPiece("straight", 1, Zero)>>, sprites |-> <<>>]

\* Arguments of getSegment: whole and fractional, on both sides of zero and
\* of the multiples of segmentLength and of trackLength, and far beyond the
\* track on both sides.
Depths ==
  {Num(n) : n \in {-20001, -20000, -1001, -1000, -801, -800, -799, -601, -401,
                   -400, -201, -200, -199, -1, 0, 1, 199, 200, 201, 399, 400,
                   401, 599, 600, 799, 800, 801, 1000, 19999, 20000, 20001}}
    \cup {Dec(n, 4) : n \in {-3201, -3199, -801, -799, -1, 1, 799, 801, 3199,
                             3201}}
    \cup {FMul(Num(n), Num(1000000)) : n \in {-2000, -1999, -7, 7, 1999, 2000}}

\* The game on a track of 1, of 4 and of 100 segments.
InitLookup ==
  \E data \in {singleTrack, shortTrack, idleTrack} : Start(data, <<>>)

\* A call track.getSegment(z): the place in the store the code reads and
\* what it finds there (nothing outside the store).
GetSegment(z) ==
  /\ lookup' =
       [z       |-> z,
        slot    |-> slotOf(track.segments, z),
        segment |-> IF slotOf(track.segments, z) \in 0..(Len(track.segments) - 1)
                      THEN <<getSegment(track.segments, z)>>
                      ELSE <<>>]
  /\ UNCHANGED trackVars
  /\ UNCHANGED <<running, lastTime, input, player, centrifugalForce,
                 steeringRate, steeringSpeedScale, position, playerY, ticks,
                 keyEvents, upd, pass, drawn, spriteSheetLoaded, spriteRequest,
                 fogDensity, fog, scheduled>>

SpecLookup == InitLookup /\ [][\E z \in Depths : GetSegment(z)]_vars

-----------------------------------------------------------------------------
(* Where the segments of a piece lie in a track built by buildFromData *)

\* The number of passes of "for (let i = 0; i < count; i++)".
passes(count) == Max(count, 0)

\* The number of segments buildFromData pushes for a piece.
emittedBy(piece) ==
  CASE piece.type = "straight" -> passes(piece.length)
    [] piece.type \in {"curve", "hill"} ->
         passes(enterCountOf(piece.length)) + passes(holdCountOf(piece.length))
           + passes(exitCountOf(piece.length))
    [] OTHER -> 0

\* The number of segments pushed before piece k is reached.
RECURSIVE emittedBefore(_, _)
emittedBefore(pieces, k) ==
  IF k <= 1 THEN 0
  ELSE emittedBefore(pieces, k - 1) + emittedBy(pieces[k - 1])

\* The curve (of a curve piece) or hill (of a hill piece) of a segment.
contributionOf(segment, piece) ==
  IF piece.type = "curve" THEN segment.curve ELSE segment.hill

\* The contribution of the k-th segment (k = 0, 1, ...) pushed for piece
\* number n of the track t that buildFromData built.
contributionAt(t, n, k) ==
  contributionOf(t.segments[emittedBefore(t.currentPieces, n) + k + 1],
                 t.currentPieces[n])

\* The curve and hill pieces of t.
envelopePieces(t) ==
  {n \in 1..Len(t.currentPieces) : t.currentPieces[n].type \in {"curve", "hill"}}

-----------------------------------------------------------------------------
(* Claims on the track.  buildFromData built the editor's preview from      *)
(* preview.currentPieces and, as long as no random track has been           *)
(* generated, the game's track from track.currentPieces.                    *)

\* C4: after any build (the constructor, buildFromData, buildRandomTrack) and
\* any sequence of rebuilds, trackLength = segments.length * segmentLength.
C4_TrackLength ==
  /\ track.trackLength = Len(track.segments) * segmentLength
  /\ preview.trackLength = Len(preview.segments) * segmentLength

\* C4 witness: a second random track has replaced the first one and a track
\* built from data.
C4_Witness ==
  /\ generated = MaxGenerated
  /\ Len(track.segments) > 100
  /\ track.trackLength = Len(track.segments) * segmentLength
  /\ Len(preview.segments) > 0

\* The elevation chain of a track: the first segment starts at 0, every
\* segment ends at the rounded sum of its start and its hill, and every
\* segment starts where the one before ends.
ElevationChain(t) ==
  /\ Len(t.segments) > 0 => t.segments[1].p1.world.y = Zero
  /\ \A i \in 1..Len(t.segments) :
       t.segments[i].p2.world.y =
         FAdd(t.segments[i].p1.world.y, t.segments[i].hill)
  /\ \A i \in 1..(Len(t.segments) - 1) :
       t.segments[i].p2.world.y = t.segments[i + 1].p1.world.y

\* p2.world.y - p1.world.y == hill, for every segment.
ElevationExact(t) ==
  \A i \in 1..Len(t.segments) :
    FSub(t.segments[i].p2.world.y, t.segments[i].p1.world.y) = t.segments[i].hill

\* C5 (amended): after any build p1.world.y of segment 0 is 0, p2.world.y of
\* every segment is the floating-point sum p1.world.y + hill, and p2.world.y
\* of segment i is p1.world.y of segment i + 1: the running sum of the hills.
C5_RunningSum == ElevationChain(track) /\ ElevationChain(preview)

\* C5 as stated: the running sum holds and, besides, p2.world.y - p1.world.y
\* == hill exactly for every segment.
C5_Exact ==
  /\ ElevationChain(track) /\ ElevationChain(preview)
  /\ ElevationExact(track) /\ ElevationExact(preview)

\* C5 witness: a built track that climbs and where the subtraction gives the
\* hill back on one segment and not on another.
C5_Witness ==
  /\ ElevationChain(track)
  /\ \E i \in 1..Len(track.segments) :
       /\ track.segments[i].hill # Zero
       /\ track.segments[i].p1.world.y # Zero
       /\ FSub(track.segments[i].p2.world.y, track.segments[i].p1.world.y)
            = track.segments[i].hill
  /\ ~ElevationExact(track)

\* The (type, length, value) of the pieces of a track description, in order.
pieceFields(pieces) ==
  [n \in 1..Len(pieces) |->
     <<pieces[n].type, pieces[n].length, pieces[n].value>>]

\* The (type, offset) of the sprites of a segment, in order.
spriteFields(sprites) ==
  [n \in 1..Len(sprites) |-> <<sprites[n].type, sprites[n].offset>>]

\* Two tracks have the same number of segments with the same curve, hill
\* and sprites.
sameRoad(t1, t2) ==
  /\ Len(t1.segments) = Len(t2.segments)
  /\ \A i \in 1..Len(t1.segments) :
       /\ t1.segments[i].curve = t2.segments[i].curve
       /\ t1.segments[i].hill = t2.segments[i].hill
       /\ spriteFields(t1.segments[i].sprites)
            = spriteFields(t2.segments[i].sprites)

\* C6: for a description X, T1 = buildFromData(X), D = T1.getTrackData() and
\* T2 = buildFromData(D): the pieces of D are those of X (type, length,
\* value, in order) and T2 has as many segments as T1 with the same curve, hill
\* and sprites.  Opening the editor from a game whose track was built from
\* its description X does exactly this: it exports D and builds T2 from it.
C6_RoundTrip ==
  [][(/\ screen = "game" /\ screen' = "editor"
      /\ track = buildFromData(trackData))
       => /\ pieceFields(trackData'.pieces) = pieceFields(trackData.pieces)
          /\ sameRoad(preview', track)]_vars

\* C6 witness: the editor shows the export of a track built from a
\* description whose sprites were neither sorted nor all on the track; two
\* of them share a segment.
C6_Witness ==
  /\ screen = "editor" /\ generated = 0 /\ edits = 0
  /\ Len(trackData.sprites) = 3
  /\ Len(preview.segments) = 40
  /\ Len(preview.segments[6].sprites) = 2
  /\ preview.segments[10].curve # Zero

\* Every hold segment of piece n of t has exactly the value of the piece.
holdExact(t, n) ==
  \A k \in 0..(holdCountOf(t.currentPieces[n].length) - 1) :
    contributionAt(t, n, enterCountOf(t.currentPieces[n].length) + k)
      = t.currentPieces[n].value

\* The contribution of the last segment emitted for piece n of t.
lastContribution(t, n) ==
  contributionAt(t, n, emittedBy(t.currentPieces[n]) - 1)

\* The curve and hill pieces of t of length at least 4.
longPieces(t) == {n \in envelopePieces(t) : t.currentPieces[n].length >= 4}

\* C7 as stated: for a curve or hill piece of length >= 4 the last emitted
\* segment has contribution 0 and every hold segment has exactly value.
EndsAtZero(t) ==
  \A n \in longPieces(t) : lastContribution(t, n) = Zero /\ holdExact(t, n)

C7_EndsAtZero ==
  /\ EndsAtZero(preview)
  /\ generated = 0 => EndsAtZero(track)

\* The last step of the exit ramp of a piece: value * (1 - (x - 1) / x) for
\* an exit phase of x segments.
lastStep(piece) ==
  FMul(piece.value,
       FSub(One, FDiv(Num(exitCountOf(piece.length) - 1),
                      Num(exitCountOf(piece.length)))))

EndsOneStepAboveZero(t) ==
  \A n \in longPieces(t) :
    /\ holdExact(t, n)
    /\ lastContribution(t, n) = lastStep(t.currentPieces[n])
    /\ lastContribution(t, n) = Zero <=> t.currentPieces[n].value = Zero

\* C7 (amended): for a curve or hill piece of length >= 4 every hold segment
\* has exactly value, and the last emitted segment has the contribution
\* value * (1 - (exitCount - 1) / exitCount), one step of the exit ramp
\* short of zero: it is 0 only for a piece of value 0.
C7_EndsOneStepAboveZero ==
  /\ EndsOneStepAboveZero(preview)
  /\ generated = 0 => EndsOneStepAboveZero(track)

\* C7 witness: a track built from a curve of 40 segments of value 8; its
\* hold segments have 8 and its last segment has neither 0 nor 8.
C7_Witness ==
  /\ generated = 0
  /\ \E n \in longPieces(track) :
       /\ track.currentPieces[n].length = 40
       /\ track.currentPieces[n].value = Num(8)
       /\ holdExact(track, n)
       /\ lastContribution(track, n) \notin {Zero, Num(8)}

\* a is b up to the rounding of a few operations.
Close(a, b) == FLe(FAbs(FSub(a, b)), FMul(FAbs(b), <<1, 4 - MantBits>>))

\* The envelope of piece n of t: the k-th enter segment has v * k / enterCount,
\* every hold segment v, the j-th exit segment v * (1 - j / exitCount).
envelopeOf(t, n, v, enterCount, holdCount, exitCount) ==
  /\ \A k \in 0..(enterCount - 1) :
       contributionAt(t, n, k) = FDiv(FMul(v, Num(k)), Num(enterCount))
  /\ \A k \in 0..(holdCount - 1) :
       contributionAt(t, n, passes(enterCount) + k) = v
  /\ \A j \in 0..(exitCount - 1) :
       contributionAt(t, n, passes(enterCount) + passes(holdCount) + j)
         = FMul(v, FSub(One, FDiv(Num(j), Num(exitCount))))

\* The curve of 40 segments of value 8: segment 9 has 7.2, segments 10..29
\* have 8 and segment 39 has 0.8.
scenario40(t, n) ==
  (t.currentPieces[n].length = 40 /\ t.currentPieces[n].value = Num(8))
    => /\ contributionAt(t, n, 9) = Dec(72, 10)
       /\ \A k \in 10..29 : contributionAt(t, n, k) = Num(8)
       /\ Close(contributionAt(t, n, 39), Dec(8, 10))

Envelope(t) ==
  \A n \in envelopePieces(t) :
    /\ envelopeOf(t, n, t.currentPieces[n].value,
                  t.currentPieces[n].length \div 4,
                  t.currentPieces[n].length \div 2,
                  t.currentPieces[n].length - t.currentPieces[n].length \div 4
                    - t.currentPieces[n].length \div 2)
    /\ scenario40(t, n)

\* C8: a curve or hill piece of length L and value v emits floor(L/4) enter
\* segments with v * k / enterCount, floor(L/2) hold segments with v and
\* L - enterCount - holdCount exit segments with v * (1 - j / exitCount); for
\* L = 40 and v = 8 segment 9 has 7.2, segments 10..29 have 8 and segment 39
\* has 0.8.
C8_Envelope ==
  /\ Envelope(preview)
  /\ generated = 0 => Envelope(track)

\* C8 witness: a track built from a curve of 40 segments of value 8, with
\* 7.2 on its segment 9, 8 on its segment 29 and a last segment between 0
\* and 1.
C8_Witness ==
  /\ generated = 0
  /\ \E n \in envelopePieces(track) :
       /\ track.currentPieces[n].length = 40
       /\ track.currentPieces[n].value = Num(8)
       /\ contributionAt(track, n, 9) = Dec(72, 10)
       /\ contributionAt(track, n, 29) = Num(8)
       /\ FLt(Zero, contributionAt(track, n, 39))
       /\ FLt(contributionAt(track, n, 39), One)

-----------------------------------------------------------------------------
(* Claims on the game *)

\* maxSpeed - (maxSpeed - offRoadMaxSpeed) * min(|x| - 1, 1)
offRoadBound(p, x) ==
  FSub(p.maxSpeed,
       FMul(FSub(p.maxSpeed, p.offRoadMaxSpeed),
            FMin(FSub(FAbs(x), One), One)))

\* C1: from speed 0, with maxSpeed > 0 and 0 <= offRoadMaxSpeed <= maxSpeed,
\* after every update with a time step in [0, 0.1], whatever the input
\* flags, the speed is in [0, maxSpeed]; after an update that found the car
\* off the road (|x| > 1 once steered) the speed is at most
\* maxSpeed - (maxSpeed - offRoadMaxSpeed) * min(|x| - 1, 1).
C1_SpeedBounds ==
  (ticks > 0 /\ FLe(Zero, upd.dt) /\ FLe(upd.dt, Dec(1, 10)))
    => /\ FLe(Zero, player.speed)
       /\ FLe(player.speed, player.maxSpeed)
       /\ FLt(One, FAbs(upd.steered))
            => FLe(player.speed, offRoadBound(player, upd.steered))

\* C1 witness: an update with the throttle held found the car off the road
\* at a speed above the off-road bound and left it at that bound, below
\* maxSpeed.
C1_Witness ==
  /\ ticks > 0 /\ FLt(Zero, upd.dt) /\ upd.state.up
  /\ FLt(One, FAbs(upd.steered))
  /\ FLt(offRoadBound(player, upd.steered), upd.speed)
  /\ player.speed = offRoadBound(player, upd.steered)
  /\ FLt(player.speed, player.maxSpeed)

\* C2: after every update, whatever the inputs, the curvature and the time
\* step, player.x is in [-2, 2].
C2_Lateral ==
  ticks > 0 => FLe(Num(-2), player.x) /\ FLe(player.x, Num(2))

\* C2 witness: steering and the centrifugal force had put x beyond 2 in
\* magnitude, and the update left it at 2.
C2_Witness ==
  /\ ticks > 0
  /\ FLt(Num(2), FAbs(FSub(upd.steered, upd.centrifugal)))
  /\ FAbs(player.x) = Num(2)

\* C3 as stated: within one render pass the values maxy takes, from the
\* viewport height on, never increase.
C3_Horizon ==
  \A i \in 1..(Len(pass.maxys) - 1) : pass.maxys[i + 1] <= pass.maxys[i]

\* C9: a call of project that finds camera.z <= 0 leaves scale = 0,
\* screen.y = height, screen.x = 0 and screen.w = 0 and divides by nothing;
\* a call divides by camera.z only when camera.z > 0.
C9_ProjectionGuard ==
  \A i \in 1..Len(pass.calls) :
    /\ FLe(pass.calls[i].point.camera.z, Zero)
         => /\ pass.calls[i].point.scale = Zero
            /\ pass.calls[i].point.screen = [x |-> 0, y |-> height, w |-> 0]
            /\ pass.calls[i].divisors = <<>>
    /\ \A j \in 1..Len(pass.calls[i].divisors) :
         /\ pass.calls[i].divisors[j] = pass.calls[i].point.camera.z
         /\ FLt(Zero, pass.calls[i].divisors[j])

\* C9 witness: one road pass projected a point behind the camera and a
\* point in front of it, the last one with a division by its camera.z.
C9_Witness ==
  /\ \E i \in 1..Len(pass.calls) :
       /\ FLt(pass.calls[i].point.camera.z, Zero)
       /\ pass.calls[i].point.screen.y = height
  /\ \E i \in 1..Len(pass.calls) :
       /\ FLt(Zero, pass.calls[i].point.camera.z)
       /\ pass.calls[i].divisors = <<pass.calls[i].point.camera.z>>
       /\ FLt(Zero, pass.calls[i].point.scale)

\* C10: an update that starts at speed 0 leaves player.x unchanged, whatever
\* the steering flags, the throttle and the curve under the car.
C10_NoSteeringAtRest ==
  [][(ticks' = ticks + 1 /\ player.speed = Zero) => player'.x = player.x]_vars

\* C10 witness: an update at speed 0 on a curved segment, with a steering
\* flag and the throttle set and time passing, has left x where it was.
C10_Witness ==
  /\ ticks > 0
  /\ upd.speed = Zero
  /\ upd.state.left /\ upd.state.up
  /\ upd.curveValue # Zero
  /\ FLt(Zero, upd.dt)
  /\ FLt(Zero, player.speed)
  /\ player.x = upd.x

\* Input.state with only the throttle held.
onlyUp == [noKeys EXCEPT !.up = TRUE]

\* The speed the throttle statement adds in one update of time step dt.
gain(p, x, dt) == throttle([p EXCEPT !.speed = Zero], x, onlyUp, dt)

\* C11: in an update with a positive time step that finds the car at x = 1.8
\* with only the throttle held, the speed the throttle adds is strictly less
\* than what it adds on the road for the same time step, the speed after the
\* throttle is not above the on-road one, and the speed the update leaves is
\* at most maxSpeed - (maxSpeed - offRoadMaxSpeed) * (|x| - 1), a limit
\* that is maxSpeed - (maxSpeed - offRoadMaxSpeed) * 0.8 up to rounding and
\* is strictly below maxSpeed when offRoadMaxSpeed < maxSpeed.
C11_OffRoadThrottle ==
  [][(/\ ticks' = ticks + 1
      /\ input = onlyUp
      /\ player.x = Dec(18, 10)
      /\ FLt(Zero, upd'.dt))
       => /\ FLt(gain(player, player.x, upd'.dt), gain(player, Zero, upd'.dt))
          /\ FLe(upd'.throttled, throttle(player, Zero, input, upd'.dt))
          /\ FLe(player'.speed, offRoadBound(player, player.x))
          /\ Close(offRoadBound(player, player.x),
                   FSub(player.maxSpeed,
                        FMul(FSub(player.maxSpeed, player.offRoadMaxSpeed),
                             Dec(8, 10))))
          /\ FLt(player.offRoadMaxSpeed, player.maxSpeed)
               => FLt(offRoadBound(player, player.x), player.maxSpeed)]_vars

\* C11 witness: the second of two updates with only the throttle held and
\* the car at x = 1.8 has added speed and left the car at the off-road
\* limit, below maxSpeed.
C11_Witness ==
  /\ ticks = 2
  /\ upd.state = onlyUp
  /\ upd.x = Dec(18, 10)
  /\ FLt(Zero, upd.dt)
  /\ FLt(upd.speed, upd.throttled)
  /\ player.speed = offRoadBound(player, upd.x)
  /\ FLt(player.speed, player.maxSpeed)

\* C12 as stated: after every update the position is in [0, trackLength).
C12_PositionInRange ==
  ticks > 0 => /\ FLe(Zero, position)
               /\ FLt(position, Num(track.trackLength))

\* The tracks that buildFromData built from trackData: the editor's preview
\* and, as long as no random track has been generated and nothing edited,
\* the game's track.
builtFromData ==
  (IF preview # NoTrack THEN {preview} ELSE {})
    \cup (IF generated = 0 /\ edits = 0 THEN {track} ELSE {})

\* The segments the pieces push.
pushed(pieces) == piecesLoop(<<>>, pieces, 0, Len(pieces))

\* 100 segments, all of them with curve = 0 and hill = 0.
flat100(segments) ==
  /\ Len(segments) = 100
  /\ \A i \in 1..Len(segments) :
       segments[i].curve = Zero /\ segments[i].hill = Zero

\* C13: buildFromData leaves at least one segment in the store, whatever the
\* pieces (none, or pieces that push nothing); when the pieces push no
\* segment the store holds exactly 100 segments with curve = 0 and hill = 0.
C13_NeverEmpty ==
  \A t \in builtFromData :
    /\ Len(t.segments) >= 1
    /\ pushed(t.currentPieces) = <<>> => flat100(t.segments)

\* C13 witness: a track built from three pieces that push nothing holds 100
\* flat segments.
C13_Witness ==
  /\ track \in builtFromData
  /\ Len(track.currentPieces) = 3
  /\ pushed(track.currentPieces) = <<>>
  /\ flat100(track.segments)

\* The (type, offset) of the placed sprites of the list whose segmentIndex is
\* index, in list order.
placedAt(sprites, index) ==
  LET at(s) == s.segmentIndex = index
  IN spriteFields(SelectSeq(sprites, at))

\* The segments without their sprites.
bare(segments) ==
  [i \in 1..Len(segments) |-> [segments[i] EXCEPT !.sprites = <<>>]]

\* C14: after buildFromData(data) the sprite list of every segment i holds
\* the (type, offset) of exactly the placed sprites with segmentIndex = i, in
\* the order of data.sprites; sprites with a negative segmentIndex or one
\* that is >= segments.length are on no segment, and the segments are
\* otherwise those that the same pieces give without any placed sprite.
C14_SpritePlacement ==
  \A t \in builtFromData :
    /\ \A i \in 1..Len(t.segments) :
         spriteFields(t.segments[i].sprites) = placedAt(trackData.sprites, i - 1)
    /\ bare(t.segments)
         = buildFromData([trackData EXCEPT !.sprites = <<>>]).segments

\* C14 witness: the track of a description with two sprites on its last
\* segment, index 99, and one before them in the list at index 100: the last
\* segment carries the two, in list order.
C14_Witness ==
  /\ track \in builtFromData
  /\ Len(track.segments) = 100
  /\ Len(trackData.sprites) = 3
  /\ trackData.sprites[1].segmentIndex = 100
  /\ spriteFields(track.segments[100].sprites)
       = <<<<"column", Dec(11, 10)>>, <<"bush1", Dec(12, 10)>>>>

\* The pieces are of a known type and none has a negative length.
wellFormed(pieces) ==
  \A n \in 1..Len(pieces) :
    /\ pieces[n].type \in {"straight", "curve", "hill"}
    /\ pieces[n].length >= 0

\* The sum of the lengths of the first n pieces.
RECURSIVE lengthOf(_, _)
lengthOf(pieces, n) ==
  IF n = 0 THEN 0 ELSE lengthOf(pieces, n - 1) + pieces[n].length

\* The segments of t that piece n pushed when every piece before it pushed
\* as many segments as its length says.
segmentsOf(t, n) ==
  [k \in 1..t.currentPieces[n].length |->
     t.segments[lengthOf(t.currentPieces, n - 1) + k]]

\* C15: for pieces of the three types with lengths >= 0 whose sum is
\* positive, buildFromData pushes piece.length consecutive segments for each
\* piece, in piece order: the store holds the sum of the lengths, the segments
\* of a straight piece have curve = 0 and hill = 0, those of a curve piece
\* hill = 0 and those of a hill piece curve = 0, the hold segments carrying
\* the value of their piece.  A single straight piece of length 50 gives
\* trackLength = 10000.
C15_SegmentsPerPiece ==
  \A t \in builtFromData :
    (wellFormed(t.currentPieces)
       /\ lengthOf(t.currentPieces, Len(t.currentPieces)) > 0)
      => /\ Len(t.segments) = lengthOf(t.currentPieces, Len(t.currentPieces))
         /\ \A n \in 1..Len(t.currentPieces) :
              \A k \in 1..t.currentPieces[n].length :
                /\ t.currentPieces[n].type # "curve"
                     => segmentsOf(t, n)[k].curve = Zero
                /\ t.currentPieces[n].type # "hill"
                     => segmentsOf(t, n)[k].hill = Zero
                /\ (/\ k > enterCountOf(t.currentPieces[n].length)
                    /\ k <= enterCountOf(t.currentPieces[n].length)
                              + holdCountOf(t.currentPieces[n].length))
                     => \/ t.currentPieces[n].type = "straight"
                        \/ contributionOf(segmentsOf(t, n)[k], t.currentPieces[n])
                             = t.currentPieces[n].value
         /\ pieceFields(t.currentPieces) = <<<<"straight", 50, Zero>>>>
              => t.trackLength = 10000

\* C15 witness: the preview of a single straight piece of length 50 has 50
\* segments with curve = 0 and hill = 0 and trackLength 10000.
C15_Witness ==
  /\ preview # NoTrack
  /\ pieceFields(preview.currentPieces) = <<<<"straight", 50, Zero>>>>
  /\ Len(preview.segments) = 50
  /\ \A i \in 1..50 :
       preview.segments[i].curve = Zero /\ preview.segments[i].hill = Zero
  /\ preview.trackLength = 10000

\* C16: within one road pass the depth p1.camera.z of the segment visited at
\* step n + 1 is strictly greater than that of the segment visited at step n,
\* for every n in [0, drawDistance - 1), whatever the track and the camera
\* position.  (calls lists the calls of project in order, two per step, the
\* one on p1 first.)
C16_DepthMonotonic ==
  ticks > 0 =>
    \A n \in 1..(DrawDistance - 1) :
      FLt(pass.calls[2 * n - 1].point.camera.z,
          pass.calls[2 * n + 1].point.camera.z)

\* C17: in every frame the sprite quads are emitted far to near: a quad of a
\* sprite attached to the segment recorded at step nA comes before every
\* quad of a sprite attached to a segment recorded at a step nB < nA.
C17_FarToNear ==
  ticks > 0 =>
    /\ \A i \in 1..Len(drawn.quads) :
         /\ drawn.quads[i].n \in 1..(Len(pass.pool) - 1)
         /\ \E k \in 1..Len(track.segments[pass.pool[drawn.quads[i].n + 1].index + 1].sprites) :
              track.segments[pass.pool[drawn.quads[i].n + 1].index + 1].sprites[k].type
                = drawn.quads[i].type
    /\ \A i, j \in 1..Len(drawn.quads) :
         drawn.quads[i].n > drawn.quads[j].n => i < j

\* A frame with quads of sprites recorded at three different steps.
C17_Witness ==
  /\ ticks > 0
  /\ \E i, j, k \in 1..Len(drawn.quads) :
       /\ drawn.quads[i].n > drawn.quads[j].n
       /\ drawn.quads[j].n > drawn.quads[k].n

\* C18: every sprite quad emitted in a frame is clipped against the horizon
\* recorded for its segment in the road pass: its bottom edge y + finalH is
\* not below that clip, whatever the clip's value; a sprite lying wholly below
\* the horizon is not emitted; and the height left out of the sheet's frame
\* is to the frame's height what the height clipped away is to the sprite's
\* full height.
C18_ClippedAtHorizon ==
  ticks > 0 =>
    \A i \in 1..Len(drawn.quads) :
      LET q == drawn.quads[i] IN
        /\ q.clip = pass.pool[q.n + 1].clip
        /\ FLe(FAdd(q.y, q.finalH), Num(q.clip))
        /\ FLt(q.y, Num(q.clip))
        /\ Close(FMul(q.srcClipH, q.destH), FMul(Num(q.frameH), q.clipH))
        /\ FLe(Zero, q.srcClipH) /\ FLt(q.srcClipH, Num(q.frameH))

\* C19: for every distance step n >= 0 and every fog density (0, and values
\* that put the end of the fog at or before its start, included) the fog
\* amount getFogAmount(n) lies in [0, 1], is 0 up to FOG.START_DISTANCE, does
\* not decrease with n and is computed without a division by zero; and every
\* sprite the step emits has an opacity 1 - fog in (0, 1], the segments with
\* fog >= 1 being skipped.
C19_FogInRange ==
  /\ fog.amount = getFogAmount(fog.n, fog.drawDistance, fogDensity)
  /\ FLe(Zero, fog.amount) /\ FLe(fog.amount, One)
  /\ fog.n <= FOG.START_DISTANCE => fog.amount = Zero
  /\ FLe(fog.amount, getFogAmount(fog.n + 1, fog.drawDistance, fogDensity))
  /\ \A i \in 1..Len(fog.divisors) : fog.divisors[i] # Zero
  /\ (fog.opacities = <<>>) = (fog.amount = One)
  /\ \A i \in 1..Len(fog.opacities) :
       /\ FLt(Zero, fog.opacities[i]) /\ FLe(fog.opacities[i], One)
       /\ fog.opacities[i] = FSub(One, fog.amount)

\* A step inside the fog's ramp, its sprites emitted part faded; the next
\* step is at the end of the fog and is skipped.
C19_Witness ==
  /\ fog.n > FOG.START_DISTANCE
  /\ FLt(Zero, fog.amount) /\ FLt(fog.amount, One)
  /\ Len(fog.opacities) = 1
  /\ FLt(fog.opacities[1], One)
  /\ fogged(fog.n + 1, fog.drawDistance, fogDensity).opacities = <<>>

\* C20: a frame rendered while the sprite sheet is not loaded (still
\* requested, or failed) emits no sprite quad and draws the car as the
\* fallback rectangle; the flag spriteSheetLoaded never goes back from true to
\* false; and a frame rendered once it is true draws the sprites of the pass
\* and the car from the sheet, whatever was drawn before.
C20_SheetNotReady ==
  [][/\ spriteSheetLoaded => spriteSheetLoaded'
     /\ (ticks' = ticks + 1 /\ ~spriteSheetLoaded) =>
          /\ drawn'.quads = <<>>
          /\ drawn'.player = "fallback"
     /\ (ticks' = ticks + 1 /\ spriteSheetLoaded) =>
          /\ drawn'.quads = spriteLoop(pass'.segments, pass'.pool, fogDensity,
                                       Len(pass'.pool) - 1, 1)
          /\ drawn'.player \in {"player_straight", "player_left",
                                 "player_right"}]_vars

\* The sheet has arrived after a frame that had sprites to draw and drew
\* none, the car being the fallback rectangle.
C20_Witness ==
  /\ ticks > 0
  /\ drawn.quads = <<>>
  /\ drawn.player = "fallback"
  /\ spriteLoop(pass.segments, pass.pool, fogDensity, Len(pass.pool) - 1, 1)
       # <<>>
  /\ spriteSheetLoaded
  /\ spriteRequest = "loaded"


\* C21 as stated: the dt that Game.loop hands to Game.update is within
\* [0, 0.1] whatever the frame timestamps are, also when a timestamp lies
\* before the time recorded by start() or by the previous frame.
C21_DtInRange ==
  ticks > 0 => /\ FLe(Zero, upd.dt)
               /\ FLe(upd.dt, Dec(1, 10))


\* What a build fixes of a segment: everything but the camera, screen and
\* scale of its two points.
persistentOf(segment) ==
  [index   |-> segment.index,
   p1      |-> segment.p1.world,
   p2      |-> segment.p2.world,
   curve   |-> segment.curve,
   hill    |-> segment.hill,
   color   |-> segment.color,
   sprites |-> segment.sprites]

\* C22: a key event and a frame (Game.update, then render) leave
\* segments.length, trackLength and, on every segment, index, the world
\* coordinates of p1 and p2, curve, hill, color and the sprite list as they
\* were; a frame changes at most the camera, screen and scale of p1 and p2.
C22_OnlyTransient ==
  [][/\ Len(track'.segments) = Len(track.segments)
     /\ track'.trackLength = track.trackLength
     /\ \A i \in 1..Len(track.segments) :
          persistentOf(track'.segments[i]) = persistentOf(track.segments[i])]_vars

\* A frame has projected a segment with sprites: its screen coordinates
\* and scale are no longer those of the build.
C22_Witness ==
  /\ ticks > 0
  /\ \E i \in 1..Len(track.segments) :
       /\ track.segments[i].sprites # <<>>
       /\ track.segments[i].p1.scale # Zero
       /\ track.segments[i].p1.screen # createScreenCoord(0).screen
       /\ track.segments[i].p2.camera # createScreenCoord(0).camera


\* Segment i (from 0) of the store is numbered i, spans the world depths
\* i * segmentLength to (i + 1) * segmentLength, and is LIGHT exactly when
\* floor(i / rumbleLength) is even, DARK otherwise.
Numbered(t) ==
  \A i \in 0..(Len(t.segments) - 1) :
    LET segment == t.segments[i + 1] IN
    /\ segment.index = i
    /\ segment.p1.world.z = Num(i * segmentLength)
    /\ segment.p2.world.z = Num((i + 1) * segmentLength)
    /\ segment.color \in {"LIGHT", "DARK"}
    /\ segment.color = "LIGHT" <=> (i \div rumbleLength) % 2 = 0

\* C23: after any build (the constructor, buildFromData, buildRandomTrack,
\* the rebuilds of the editor) every segment of the store carries its place
\* in the store as index and as world depth, and the colour of its band.
C23_Numbered == Numbered(track) /\ Numbered(preview)

\* A random track and a preview built from its pieces, both with segments of
\* the second (DARK) and third (LIGHT) band.
C23_Witness ==
  /\ generated > 0
  /\ preview # NoTrack
  /\ Len(track.segments) > 3 * rumbleLength
  /\ Len(preview.segments) > 3 * rumbleLength
  /\ track.segments[rumbleLength + 1].color = "DARK"
  /\ preview.segments[2 * rumbleLength + 1].color = "LIGHT"
  /\ preview.segments[2 * rumbleLength + 1].p2.world.z
       = Num((2 * rumbleLength + 1) * segmentLength)


\* Step n (from 0) of the road pass r: the two points as the step's calls of
\* project left them, the horizon recorded in the pool, the horizon after
\* the step, and the draw decision as the three conditions give it.
stepOf(r, n) ==
  LET p1   == r.calls[2 * n + 1].point
      p2   == r.calls[2 * n + 2].point
      clip == r.pool[n + 1].clip
  IN [p1    |-> p1,
      p2    |-> p2,
      clip  |-> clip,
      after |-> IF n + 1 < Len(r.pool) THEN r.pool[n + 2].clip ELSE r.maxy,
      drawn |-> /\ FLt(cameraDepth, p1.camera.z)
                /\ p2.screen.y < p1.screen.y
                /\ p2.screen.y < clip]

\* The steps of the pass r that the three conditions draw.
drawnSteps(r) == {n \in 0..(Len(r.pool) - 1) : stepOf(r, n).drawn}

\* C24: a road pass visits drawDistance segments; each is projected (p1 and
\* p2) and recorded in the pool with the horizon in force before its draw
\* decision, drawn or not; the horizon starts at the canvas height, becomes
\* p1.screen.y after a step exactly when p1.camera.z > cameraDepth,
\* p2.screen.y < p1.screen.y and p2.screen.y < horizon, and stays as it was
\* after any other step; the horizon is set once per drawn segment.
C24_RoadPass ==
  ticks > 0 =>
    /\ Len(pass.pool) = DrawDistance
    /\ Len(pass.calls) = 2 * DrawDistance
    /\ pass.pool[1].clip = height
    /\ Len(pass.maxys) = 1 + Cardinality(drawnSteps(pass))
    /\ \A n \in 0..(DrawDistance - 1) :
         LET step  == stepOf(pass, n)
             index == pass.pool[n + 1].index
         IN /\ step.p1.world.z = Num(index * segmentLength)
            /\ step.p2.world.z = Num((index + 1) * segmentLength)
            /\ step.p1.camera.z = FSub(step.p1.world.z,
                                       IF index < pass.pool[1].index
                                         THEN FSub(position, Num(track.trackLength))
                                         ELSE position)
            /\ step.after = IF step.drawn THEN step.p1.screen.y ELSE step.clip

\* A pass with drawn segments and, after them, a segment that is in front of
\* the camera and faces it but lies at or below the horizon, recorded with
\* the lowered horizon and leaving it unchanged.
C24_Witness ==
  /\ ticks > 0
  /\ \E n \in 1..(DrawDistance - 1) :
       LET step == stepOf(pass, n) IN
       /\ step.clip < height
       /\ FLt(cameraDepth, step.p1.camera.z)
       /\ step.p2.screen.y < step.p1.screen.y
       /\ step.p2.screen.y >= step.clip
       /\ step.after = step.clip
       /\ drawnSteps(pass) # {}


\* speedPercent of the last update: the speed the tick began with over
\* maxSpeed.
speedPercentOf(u) == FDiv(u.speed, u.player.maxSpeed)

\* C25 as stated: in every tick the displacement of x by the centrifugal
\* force, -centrifugal, is zero or of the sign opposite to the interpolated
\* (clamped) curvature, and its magnitude is at most
\* 5 * speedPercent^2 * dt * centrifugalForce.
C25_Centrifugal ==
  ticks > 0 =>
    /\ -FSign(upd.centrifugal) * FSign(upd.curveValue) <= 0
    /\ FLe(FAbs(upd.centrifugal),
           centrifugalOf(Num(5), speedPercentOf(upd), upd.dt, centrifugalForce))


\* A point with values in its camera, screen and scale fields that no
\* projection of the frame produced.
stalePoint(p) ==
  [p EXCEPT !.camera = [x |-> Num(7), y |-> Num(-3), z |-> Num(900)],
            !.screen = [x |-> 300, y |-> 200, w |-> 150],
            !.scale  = Dec(1, 100)]

\* The track t as an earlier frame may have left it: the same persistent
\* data, other values in the camera, screen and scale of every point.
staleTrack(t) ==
  [t EXCEPT !.segments =
     [i \in 1..Len(t.segments) |->
        [t.segments[i] EXCEPT !.p1 = stalePoint(t.segments[i].p1),
                              !.p2 = stalePoint(t.segments[i].p2)]]]

\* segmentDataPool after a road pass that recorded the entries of fresh in
\* a pool allocated for more entries than the pass visits (the preview's
\* renderer: allocated for 350, drawDistance 100): the first segmentCount
\* entries are overwritten, the others are what an earlier pass left.
poolAfter(fresh, count) ==
  fresh \o <<[index |-> (fresh[1].index + 1) % count, clip |-> 1],
             [index |-> fresh[1].index, clip |-> height]>>

\* What a frame puts on the screen after the road pass r: per step the draw
\* decision and, for a drawn step, the screen coordinates of the quad; the
\* segment and the clip of every pool entry; the sprite quads.
outputOf(r, loaded, density) ==
  [road    |-> [n \in 0..(Len(r.pool) - 1) |->
                  IF skipped([p1 |-> stepOf(r, n).p1, p2 |-> stepOf(r, n).p2],
                             stepOf(r, n).clip)
                    THEN <<>>
                    ELSE <<stepOf(r, n).p1.screen, stepOf(r, n).p2.screen>>],
   pool    |-> r.pool,
   horizon |-> r.maxy,
   sprites |-> IF ~loaded THEN <<>>
               ELSE spriteLoop(r.segments,
                               poolAfter(r.pool, Len(r.segments)), density,
                               Len(r.pool) - 1, 1)]

\* C26: what a frame draws (road quads, clip per pool entry, sprite quads)
\* is what a render with the same track data, position, playerX, playerY,
\* drawDistance, fogDensity and ready flag draws over segments whose camera,
\* screen and scale fields hold other values and with other entries in the
\* part of the pool that the pass does not record.
C26_NoStaleData ==
  ticks > 0 =>
    outputOf(render(staleTrack(track), position, player.x, playerY),
             spriteSheetLoaded, fogDensity)
      = outputOf(pass, spriteSheetLoaded, fogDensity)

\* A second frame, rendered from another position than the first over the
\* values the first left, with road quads and sprite quads.
C26_Witness ==
  /\ ticks = MaxTicks
  /\ upd.from # position
  /\ drawnSteps(pass) # {}
  /\ drawn.quads # <<>>
  /\ drawn.quads = outputOf(pass, spriteSheetLoaded, fogDensity).sprites


\* C27 as stated: opening the editor from a game whose track came from
\* buildRandomTrack exports the retained pieces and builds a track from
\* them; that track has as many segments as the generated one, with the
\* same curve and hill on every segment, and the lengths of the exported
\* pieces sum to the number of generated segments.
C27_RandomRoundTrip ==
  [][(screen = "game" /\ screen' = "editor" /\ generated > 0)
       => /\ Len(preview'.segments) = Len(track.segments)
          /\ pathLength(trackData'.pieces, 1) = Len(track.segments)
          /\ \A i \in 1..Min(Len(track.segments), Len(preview'.segments)) :
               /\ preview'.segments[i].curve = track.segments[i].curve
               /\ preview'.segments[i].hill = track.segments[i].hill]_vars


addedBy(pieces, n) ==
  Len(pushed(SubSeq(pieces, 1, n))) - Len(pushed(SubSeq(pieces, 1, n - 1)))

\* C29 as stated: in buildFromData a piece of any type with a length <= 0
\* adds no segment to the store, and a curve or hill piece of length 1, 2 or
\* 3 is built (no division by a zero enterCount, holdCount or exitCount
\* stops it) and adds as many segments as its length.
C29_ShortPieces ==
  \A t \in builtFromData :
    \A n \in 1..Len(t.currentPieces) :
      LET piece == t.currentPieces[n] IN
      /\ piece.length <= 0 => addedBy(t.currentPieces, n) = 0
      /\ (piece.type \in {"curve", "hill"} /\ piece.length \in 1..3)
           => addedBy(t.currentPieces, n) = piece.length


\* C30: track.getSegment(z), for z whole or fractional, negative or positive,
\* within the track or far beyond it, on a track of N >= 1 segments, returns
\* a segment of the store, the one whose index is the floor of the quotient
\* z / segmentLength (as the division yields it) reduced modulo N to
\* 0..N-1.
C30_GetSegment ==
  lookup # NoLookup =>
    LET N == Len(track.segments)
        k == Floor(FDiv(lookup.z, Num(segmentLength)))
    IN /\ N >= 1
       /\ lookup.slot \in 0..(N - 1)
       /\ lookup.slot = ((k % N) + N) % N
       /\ lookup.segment = <<track.segments[lookup.slot + 1]>>
       /\ lookup.segment[1].index = lookup.slot

\* A call with a negative fractional z beyond the start of a track of four
\* segments: the segment found is counted from the end of the track.
C30_Witness ==
  /\ Len(track.segments) = 4
  /\ lookup.z = Dec(-3201, 4)
  /\ lookup.slot = 3
  /\ lookup.segment # <<>>
  /\ lookup.segment[1].index = 3

=============================================================================
